---------------------------- MODULE Spec2Model ----------------------------
(***************************************************************************)
(* MergePicFolders: the background Worker (worker.py) and the window that  *)
(* schedules it (window.py).                                               *)
(*                                                                         *)
(* A file name is a sequence of one-character strings, a path a sequence   *)
(* of names, and the filesystem a pair of sets of paths (directories and   *)
(* files).                                                                 *)
(***************************************************************************)
EXTENDS Integers, Sequences, FiniteSets, TLC

VARIABLES
    rv,          \* the collision resolver's call: inputs and result
    fs,          \* the filesystem: [dirs, files, empty], sets of paths
    fs0,         \* the filesystem when the Worker was started
    wk,          \* the Worker object's fields and the position of its thread
    lv,          \* the locals of the operation the Worker's thread is running
    emitted,     \* the signals the Worker has emitted, in order
    win,         \* the window's fields and the position of the main thread
    threads,     \* the Worker objects the window has created, in order
    posted       \* the signals queued for the main thread's event loop

vars == <<rv, fs, fs0, wk, lv, emitted, win, threads, posted>>

(***************************************************************************)
(* Names and paths                                                         *)
(***************************************************************************)
None == <<>>

Digit(d) == CASE d = 0 -> "0" [] d = 1 -> "1" [] d = 2 -> "2" [] d = 3 -> "3"
              [] d = 4 -> "4" [] d = 5 -> "5" [] d = 6 -> "6" [] d = 7 -> "7"
              [] d = 8 -> "8" [] d = 9 -> "9"

\* str(n) of a non-negative integer
RECURSIVE ToDigits(_)
ToDigits(n) == IF n < 10 THEN <<Digit(n)>> ELSE ToDigits(n \div 10) \o <<Digit(n % 10)>>

\* name.rfind('.') as a 1-based index, 0 when the name holds no dot
RfindDot(name) ==
    LET dots == {i \in 1..Len(name) : name[i] = "."}
    IN IF dots = {} THEN 0 ELSE CHOOSE i \in dots : \A j \in dots : j <= i

\* pathlib's PurePath.suffix and PurePath.stem
HasSuffix(name) == 1 < RfindDot(name) /\ RfindDot(name) < Len(name)
PathSuffix(name) == IF HasSuffix(name) THEN SubSeq(name, RfindDot(name), Len(name)) ELSE <<>>
PathStem(name) == IF HasSuffix(name) THEN SubSeq(name, 1, RfindDot(name) - 1) ELSE name

\* f"{stem}_{counter}{suffix}", counter already formatted
Candidate(stem, counter, suffix) == stem \o <<"_">> \o counter \o suffix

Parent(p) == SubSeq(p, 1, Len(p) - 1)
BaseName(p) == p[Len(p)]
IsUnder(p, d) == Len(p) > Len(d) /\ SubSeq(p, 1, Len(d)) = d

(***************************************************************************)
(* Worker._generate_unique_target_path                                     *)
(***************************************************************************)
MaxCounter == 1000

\* UniqueLoopBody with the timestamp name returned unchecked
UniqueLoopBodyUnchecked(st, stem, suffix, target_folder, existing, timestamp) ==
    IF st.out # "loop" THEN st
    ELSE IF st.target_path \notin existing THEN [st EXCEPT !.out = "exit"]
    ELSE IF st.counter + 1 > MaxCounter
         THEN [target_path |-> target_folder \o <<Candidate(stem, timestamp, suffix)>>,
               counter |-> st.counter + 1, out |-> "exit"]
         ELSE [target_path |-> target_folder \o <<Candidate(stem, ToDigits(st.counter), suffix)>>,
               counter |-> st.counter + 1, out |-> "loop"]

\* One pass of the while loop. st holds the loop's variables: target_path is
\* the candidate under test, counter the next number, out tells whether the
\* loop has been left ("loop": not yet; "return": by the return None;
\* "exit": by the break or by the loop condition). existing is the set of
\* paths for which Path.exists() is true.
UniqueLoopBody(st, stem, suffix, target_folder, existing, timestamp) ==
    IF st.out # "loop" THEN st
    ELSE IF st.target_path \notin existing THEN [st EXCEPT !.out = "exit"]
    ELSE LET next_path == target_folder \o <<Candidate(stem, ToDigits(st.counter), suffix)>>
             stamp_path == target_folder \o <<Candidate(stem, timestamp, suffix)>>
         IN IF st.counter + 1 > MaxCounter
            THEN IF stamp_path \in existing
                 THEN [target_path |-> None, counter |-> st.counter + 1, out |-> "return"]
                 ELSE [target_path |-> stamp_path, counter |-> st.counter + 1, out |-> "exit"]
            ELSE [target_path |-> next_path, counter |-> st.counter + 1, out |-> "loop"]

\* n passes of the loop, one after the other (none once the loop is left)
RECURSIVE UniqueLoopPasses(_, _, _, _, _, _, _)
UniqueLoopPasses(st, n, stem, suffix, target_folder, existing, timestamp) ==
    IF n = 0 THEN st
    ELSE IF n = 1 THEN UniqueLoopBody(st, stem, suffix, target_folder, existing, timestamp)
    ELSE LET half == UniqueLoopPasses(st, n \div 2, stem, suffix, target_folder,
                                      existing, timestamp)
         IN IF half.out # "loop" THEN half
            ELSE UniqueLoopPasses(half, n - (n \div 2), stem, suffix, target_folder,
                                  existing, timestamp)

\* the loop is left after at most MaxCounter passes
UniqueLoop(target_path, stem, suffix, target_folder, existing, timestamp) ==
    UniqueLoopPasses([target_path |-> target_path, counter |-> 1, out |-> "loop"],
                     MaxCounter, stem, suffix, target_folder, existing,
                     timestamp).target_path

generate_unique_target_path(source_name, target_folder, existing, timestamp) ==
    LET target_path == target_folder \o <<source_name>>
    IN IF target_path \notin existing THEN target_path
       ELSE UniqueLoop(target_path, PathStem(source_name), PathSuffix(source_name),
                       target_folder, existing, timestamp)


(***************************************************************************)
(* The resolver on its own: a target directory listing, a source file      *)
(* name and a clock reading are drawn, and the resolver is called once.    *)
(***************************************************************************)
TargetDir == << <<"R">>, <<"x", "_", "m", "e", "r", "g", "e", "d">> >>

ResolverNames ==
    { <<"a", ".", "j", "p", "g">>, <<"a", "_", "1", ".", "j", "p", "g">>,
      <<"b">>, <<".", "h">> }

\* int(time.time() * 1000), formatted
Stamps == { <<"1","7","6","2","3","0","0","8","0","0","0","0","0">>,
            <<"1","7","6","2","3","0","0","8","0","0","0","0","1">> }

Numbered(name, n) == Candidate(PathStem(name), ToDigits(n), PathSuffix(name))
Stamped(name, stamp) == Candidate(PathStem(name), stamp, PathSuffix(name))

\* name, name_1 .. name_m
Run(name, m) == {name} \cup {Numbered(name, n) : n \in 1..m}

RunLengths == {0, 1, 2, 998, 999, 1000}
Holes == {0, 1, 2, 999, 1000}

Listings(name, stamp) ==
    { ((Run(name, m) \ (IF h = 0 THEN {} ELSE {Numbered(name, h)}))
          \ (IF withBase THEN {} ELSE {name}))
        \cup (IF withStamp THEN {Stamped(name, stamp)} ELSE {})
      : <<m, h, withBase, withStamp>> \in RunLengths \X Holes \X BOOLEAN \X BOOLEAN }

ExistingIn(dir, listing) == {dir \o <<n>> : n \in listing}

NoResolver == [listing |-> {}, name |-> None, stamp |-> None, result |-> None,
               called |-> FALSE]
NoFs == [dirs |-> {}, files |-> {}, empty |-> {}]
NoWorker == [task_type |-> "none"]
NoWindow == [pc |-> "none"]

InitResolver ==
    /\ \E name \in ResolverNames, stamp \in Stamps :
         \E listing \in Listings(name, stamp) :
            rv = [listing |-> listing, name |-> name, stamp |-> stamp,
                  result |-> None, called |-> FALSE]
    /\ fs = NoFs
    /\ fs0 = NoFs
    /\ wk = NoWorker
    /\ lv = <<>>
    /\ emitted = <<>>
    /\ win = NoWindow
    /\ threads = <<>>
    /\ posted = <<>>

ResolveCall ==
    /\ rv.called = FALSE
    /\ rv.name # None
    /\ rv' = [rv EXCEPT !.called = TRUE,
                        !.result = generate_unique_target_path(
                                      rv.name, TargetDir,
                                      ExistingIn(TargetDir, rv.listing), rv.stamp)]
    /\ UNCHANGED <<fs, fs0, wk, lv, emitted, win, threads, posted>>

NextResolver == ResolveCall

SpecResolver == InitResolver /\ [][NextResolver]_vars

(***************************************************************************)
(* The filesystem                                                          *)
(***************************************************************************)
Exists(f, p) == p \in f.dirs \cup f.files
IsDir(f, p) == p \in f.dirs
IsFile(f, p) == p \in f.files

\* Rglob listing the folder's own entries only
RglobShallow(f, folder) == {p \in f.dirs \cup f.files : Parent(p) = folder}

\* list(folder.rglob("*")): every entry below folder
Rglob(f, folder) == {p \in f.dirs \cup f.files : IsUnder(p, folder)}

\* The order in which a listing (rglob, glob, iterdir, os.walk) yields its
\* entries is the directory's own; the model fixes one order for each set.
\* the first n entries of the listing of S
RECURSIVE ListedUpTo(_, _)
ListedUpTo(S, n) ==
    IF S = {} \/ n = 0 THEN <<>>
    ELSE LET p == CHOOSE q \in S : TRUE IN <<p>> \o ListedUpTo(S \ {p}, n - 1)

\* the whole listing, taken eight entries at a time to keep the evaluation
\* of a long listing shallow
RECURSIVE Listed(_)
Listed(S) ==
    IF S = {} THEN <<>>
    ELSE LET head == ListedUpTo(S, 8)
         IN head \o Listed(S \ {head[i] : i \in DOMAIN head})

\* folder.glob("*/" * (depth - 1) + "*"): the entries exactly depth levels below
Glob(f, folder, depth) == {p \in Rglob(f, folder) : Len(p) = Len(folder) + depth}

\* Moved leaving the source file where it is
Copied(f, source_path, target_path) ==
    [f EXCEPT !.files = @ \cup {target_path},
              !.empty = IF source_path \in @ THEN @ \cup {target_path} ELSE @]

\* shutil.move(source_path, target_path), when it succeeds
Moved(f, source_path, target_path) ==
    [f EXCEPT !.files = (@ \ {source_path}) \cup {target_path},
              !.empty = IF source_path \in @
                        THEN (@ \ {source_path}) \cup {target_path} ELSE @]

\* WalkEmptyDirs walking the whole filesystem
WalkEmptyDirsAnywhere(f, source_folder) ==
    {d \in f.dirs : Glob(f, d, 1) = {}}

\* the directories os.walk(source_folder, topdown=False) reports with
\* neither dirs nor files
WalkEmptyDirs(f, source_folder) ==
    {d \in f.dirs : /\ (d = source_folder \/ IsUnder(d, source_folder))
                    /\ Glob(f, d, 1) = {}}

\* dir_to_delete.rmdir(), when it succeeds
Rmdir(f, d) == [f EXCEPT !.dirs = @ \ {d}]

(***************************************************************************)
(* Worker: the thread of one Worker object                                 *)
(***************************************************************************)
Signal(sig, what, arg) == [sig |-> sig, what |-> what, arg |-> arg]
Emit(signal) == emitted' = Append(emitted, signal)

\* the thread is inside run()
Running == wk.task_type # "none" /\ wk.pc \notin {"done", "terminated"}

\* Worker.run up to the call of the operation
RunBegin ==
    /\ wk.task_type # "none"
    /\ wk.pc = "start"
    /\ LET w == [wk EXCEPT !.is_running = TRUE, !.success = FALSE]
       IN IF wk.task_type = "scan_subfolder_images" /\ wk.folder_to_scan # None
          THEN wk' = [w EXCEPT !.pc = "scan"] /\ UNCHANGED emitted
          ELSE IF wk.task_type = "get_folder_preview" /\ wk.folder_to_scan # None
          THEN wk' = [w EXCEPT !.pc = "preview"] /\ UNCHANGED emitted
          ELSE IF wk.task_type = "populate_subfolders" /\ wk.root_folder_to_scan # None
          THEN wk' = [w EXCEPT !.pc = "populate"] /\ UNCHANGED emitted
          ELSE IF /\ wk.task_type = "merge_subs"
                  /\ wk.target_merge_folder # None
                  /\ wk.source_merge_folders # <<>>
          THEN wk' = [w EXCEPT !.pc = "merge"] /\ UNCHANGED emitted
          ELSE /\ wk' = [w EXCEPT !.pc = "finally"]
               /\ Emit(Signal("error", "missing folders", wk.task_type))
    /\ UNCHANGED <<win, threads, posted, rv, fs, fs0, lv>>

\* run(): the operation returned, "Assume success if no exception"
RunReturn ==
    /\ wk.task_type # "none"
    /\ wk.pc = "return"
    /\ wk' = [wk EXCEPT !.success = TRUE, !.pc = "finally"]
    /\ UNCHANGED <<win, threads, posted, rv, fs, fs0, lv, emitted>>

\* run(): except Exception
RunExcept ==
    /\ wk.task_type # "none"
    /\ wk.pc = "raised"
    /\ wk' = [wk EXCEPT !.success = FALSE, !.pc = "finally"]
    /\ Emit(Signal("error", "unexpected", wk.task_type))
    /\ UNCHANGED <<win, threads, posted, rv, fs, fs0, lv>>

\* run(): finally
RunFinally ==
    /\ wk.task_type # "none"
    /\ wk.pc = "finally"
    /\ wk' = [wk EXCEPT !.is_running = FALSE, !.pc = "done"]
    /\ Emit(Signal("finished", wk.task_type, wk.success))
    /\ UNCHANGED <<win, threads, posted, rv, fs, fs0, lv>>

\* Worker.stop, called from the window's thread while the thread runs
Stop ==
    /\ Running
    /\ ~wk.stopped
    /\ wk' = [wk EXCEPT !.is_running = FALSE, !.stopped = TRUE]
    /\ Emit(Signal("progress", "cancellation requested", wk.task_type))
    /\ UNCHANGED <<win, threads, posted, rv, fs, fs0, lv>>

\* QThread.terminate, called by the window after stop() and a wait that
\* timed out: the thread ends wherever it is
Terminate ==
    /\ Running
    /\ wk.stopped
    /\ wk' = [wk EXCEPT !.pc = "terminated"]
    /\ UNCHANGED <<win, threads, posted, rv, fs, fs0, lv, emitted>>

(***************************************************************************)
(* Worker._merge_subfolders_to_target                                      *)
(***************************************************************************)
MergeLocals ==
    [moved_count |-> 0, skipped_count |-> 0, deleted_source_dirs |-> 0,
     processed_sources |-> <<>>, source |-> 1, items_to_move |-> <<>>,
     deleting |-> 1, empty_dirs_in_source |-> <<>>,
     cancel_seen |-> FALSE]   \* history: a test of _is_running has failed

\* MergeBegin without the test of the target folder
MergeBeginUntested ==
    /\ wk.task_type # "none"
    /\ wk.pc = "merge"
    /\ lv' = MergeLocals
    /\ Emit(Signal("progress", "starting merge", wk.target_merge_folder))
    /\ wk' = [wk EXCEPT !.pc = "merge_source"]
    /\ UNCHANGED <<win, threads, posted, rv, fs, fs0>>

\* up to the first for loop: the start is announced, and the target folder
\* must exist
MergeBegin ==
    /\ wk.task_type # "none"
    /\ wk.pc = "merge"
    /\ lv' = MergeLocals
    /\ IF ~Exists(fs, wk.target_merge_folder)
       THEN /\ emitted' = emitted \o
                   <<Signal("progress", "starting merge", wk.target_merge_folder),
                     Signal("error", "target missing", wk.target_merge_folder)>>
            /\ wk' = [wk EXCEPT !.pc = "return"]
       ELSE /\ Emit(Signal("progress", "starting merge", wk.target_merge_folder))
            /\ wk' = [wk EXCEPT !.pc = "merge_source"]
    /\ UNCHANGED <<win, threads, posted, rv, fs, fs0>>

\* for source_folder in self.source_merge_folders: one source, up to the
\* listing of its items; after the last source, on to the deletion
MergeSource ==
    /\ wk.task_type # "none"
    /\ wk.pc = "merge_source"
    /\ IF lv.source > Len(wk.source_merge_folders)
       THEN /\ wk' = [wk EXCEPT !.pc = "merge_delete"]
            /\ Emit(Signal("progress", "checking source folders", None))
            /\ UNCHANGED lv
       ELSE LET source_folder == wk.source_merge_folders[lv.source]
            IN IF ~wk.is_running
               THEN /\ wk' = [wk EXCEPT !.pc = "return"]
                    /\ Emit(Signal("progress", "merge cancelled", source_folder))
                    /\ lv' = [lv EXCEPT !.cancel_seen = TRUE]
               ELSE IF ~IsDir(fs, source_folder)
               THEN /\ Emit(Signal("error", "source not a directory", source_folder))
                    /\ lv' = [lv EXCEPT !.source = @ + 1]
                    /\ UNCHANGED wk
               ELSE /\ Emit(Signal("progress", "processing source", source_folder))
                    /\ lv' = [lv EXCEPT !.items_to_move = Listed(Rglob(fs, source_folder))]
                    /\ wk' = [wk EXCEPT !.pc = "merge_item"]
    /\ UNCHANGED <<win, threads, posted, rv, fs, fs0>>

\* MergeItemStep leaving the merge at the first skipped file
MergeItemStepAborting(item_path, target_path, move_ok) ==
    LET rest == [lv EXCEPT !.items_to_move = Tail(@)]
    IN IF ~wk.is_running
       THEN /\ wk' = [wk EXCEPT !.pc = "return"]
            /\ Emit(Signal("progress", "merge cancelled", item_path))
            /\ lv' = [lv EXCEPT !.cancel_seen = TRUE]
            /\ UNCHANGED fs
       ELSE IF ~IsFile(fs, item_path)
       THEN /\ lv' = rest
            /\ UNCHANGED <<fs, wk, emitted>>
       ELSE IF target_path = None \/ ~move_ok
       THEN /\ Emit(Signal("error", "move", item_path))
            /\ lv' = [rest EXCEPT !.skipped_count = @ + 1]
            /\ wk' = [wk EXCEPT !.pc = "merge_delete"]
            /\ UNCHANGED fs
       ELSE /\ fs' = Moved(fs, item_path, target_path)
            /\ Emit(Signal("progress", "moved", <<item_path, target_path>>))
            /\ lv' = [rest EXCEPT !.moved_count = @ + 1]
            /\ UNCHANGED wk

\* for item_path in items_to_move: one item; target_path is the resolver's
\* answer, move_ok tells whether shutil.move succeeds
MergeItemStep(item_path, target_path, move_ok) ==
    LET rest == [lv EXCEPT !.items_to_move = Tail(@)]
    IN IF ~wk.is_running
       THEN /\ wk' = [wk EXCEPT !.pc = "return"]
            /\ Emit(Signal("progress", "merge cancelled", item_path))
            /\ lv' = [lv EXCEPT !.cancel_seen = TRUE]
            /\ UNCHANGED fs
       ELSE IF ~IsFile(fs, item_path)
       THEN /\ lv' = rest
            /\ UNCHANGED <<fs, wk, emitted>>
       ELSE IF target_path = None
       THEN /\ Emit(Signal("error", "no unique name", item_path))
            /\ lv' = [rest EXCEPT !.skipped_count = @ + 1]
            /\ UNCHANGED <<fs, wk>>
       ELSE IF move_ok
       THEN /\ fs' = Moved(fs, item_path, target_path)
            /\ Emit(Signal("progress", "moved", <<item_path, target_path>>))
            /\ lv' = [rest EXCEPT !.moved_count = @ + 1]
            /\ UNCHANGED wk
       ELSE /\ Emit(Signal("error", "move", item_path))
            /\ lv' = [rest EXCEPT !.skipped_count = @ + 1]
            /\ UNCHANGED <<fs, wk>>

\* MergeItem moving each file to its own name in the target folder, whether
\* that name is taken or not
MergeItemPlainName ==
    /\ wk.task_type # "none"
    /\ wk.pc = "merge_item"
    /\ lv.items_to_move # <<>>
    /\ LET item_path == Head(lv.items_to_move)
           target_path == wk.target_merge_folder \o <<BaseName(item_path)>>
       IN \E move_ok \in BOOLEAN : MergeItemStep(item_path, target_path, move_ok)
    /\ UNCHANGED <<win, threads, posted, rv, fs0>>

MergeItem ==
    /\ wk.task_type # "none"
    /\ wk.pc = "merge_item"
    /\ lv.items_to_move # <<>>
    /\ \E stamp \in Stamps :
          LET item_path == Head(lv.items_to_move)
              target_path == IF wk.is_running /\ IsFile(fs, item_path)
                             THEN generate_unique_target_path(
                                      BaseName(item_path), wk.target_merge_folder,
                                      fs.dirs \cup fs.files, stamp)
                             ELSE None
          IN \E move_ok \in BOOLEAN : MergeItemStep(item_path, target_path, move_ok)
    /\ UNCHANGED <<win, threads, posted, rv, fs0>>

\* the items of the source are exhausted
MergeSourceDone ==
    /\ wk.task_type # "none"
    /\ wk.pc = "merge_item"
    /\ lv.items_to_move = <<>>
    /\ lv' = [lv EXCEPT !.processed_sources =
                            Append(@, wk.source_merge_folders[lv.source]),
                        !.source = @ + 1]
    /\ wk' = [wk EXCEPT !.pc = "merge_source"]
    /\ UNCHANGED <<win, threads, posted, rv, fs, fs0, emitted>>

\* for source_folder in processed_sources: the walk that collects the
\* empty directories of one source; after the last source, the summary
MergeDeleteStep ==
    IF ~wk.is_running \/ lv.deleting > Len(lv.processed_sources)
    THEN /\ wk' = [wk EXCEPT !.pc = "return",
                             !.success = (lv.skipped_count = 0)]
         /\ Emit(Signal("progress",
                        IF lv.skipped_count > 0 THEN "merge partially complete"
                                                ELSE "merge complete",
                        <<lv.moved_count, lv.skipped_count, lv.deleted_source_dirs>>))
         /\ lv' = [lv EXCEPT !.cancel_seen =
                                 @ \/ lv.deleting <= Len(lv.processed_sources)]
    ELSE /\ lv' = [lv EXCEPT !.empty_dirs_in_source =
                                 Listed(WalkEmptyDirs(fs, lv.processed_sources[lv.deleting]))]
         /\ wk' = [wk EXCEPT !.pc = "merge_rmdir"]
         /\ UNCHANGED emitted

MergeDelete ==
    /\ wk.task_type # "none"
    /\ wk.pc = "merge_delete"
    /\ MergeDeleteStep
    /\ UNCHANGED <<win, threads, posted, rv, fs, fs0>>

\* MergeRmdirStep without its test of the cancellation flag
MergeRmdirStepDeaf(dir_to_delete, rmdir_ok) ==
    IF rmdir_ok
    THEN /\ fs' = Rmdir(fs, dir_to_delete)
         /\ Emit(Signal("progress", "deleted empty directory", dir_to_delete))
         /\ lv' = [lv EXCEPT !.empty_dirs_in_source = Tail(@),
                             !.deleted_source_dirs =
                                 IF dir_to_delete = lv.processed_sources[lv.deleting]
                                 THEN @ + 1 ELSE @]
         /\ UNCHANGED wk
    ELSE /\ Emit(Signal("progress", "could not delete", dir_to_delete))
         /\ lv' = [lv EXCEPT !.empty_dirs_in_source = Tail(@)]
         /\ UNCHANGED <<fs, wk>>

\* for dir_to_delete in empty_dirs_in_source: one directory; rmdir_ok tells
\* whether rmdir succeeds
MergeRmdirStep(dir_to_delete, rmdir_ok) ==
    IF ~wk.is_running
    THEN /\ wk' = [wk EXCEPT !.pc = "merge_delete"]
         /\ lv' = [lv EXCEPT !.cancel_seen = TRUE]
         /\ UNCHANGED <<fs, emitted>>
    ELSE IF rmdir_ok
    THEN /\ fs' = Rmdir(fs, dir_to_delete)
         /\ Emit(Signal("progress", "deleted empty directory", dir_to_delete))
         /\ lv' = [lv EXCEPT !.empty_dirs_in_source = Tail(@),
                             !.deleted_source_dirs =
                                 IF dir_to_delete = lv.processed_sources[lv.deleting]
                                 THEN @ + 1 ELSE @]
         /\ UNCHANGED wk
    ELSE /\ Emit(Signal("progress", "could not delete", dir_to_delete))
         /\ lv' = [lv EXCEPT !.empty_dirs_in_source = Tail(@)]
         /\ UNCHANGED <<fs, wk>>

MergeRmdir ==
    /\ wk.task_type # "none"
    /\ wk.pc = "merge_rmdir"
    /\ lv.empty_dirs_in_source # <<>>
    /\ \E rmdir_ok \in BOOLEAN :
          MergeRmdirStep(Head(lv.empty_dirs_in_source), rmdir_ok)
    /\ UNCHANGED <<win, threads, posted, rv, fs0>>

\* the empty directories of the source are exhausted
MergeRmdirDone ==
    /\ wk.task_type # "none"
    /\ wk.pc = "merge_rmdir"
    /\ lv.empty_dirs_in_source = <<>>
    /\ lv' = [lv EXCEPT !.deleting = @ + 1]
    /\ wk' = [wk EXCEPT !.pc = "merge_delete"]
    /\ UNCHANGED <<win, threads, posted, rv, fs, fs0, emitted>>

\* an exception inside the try block (the listing of a source fails):
\* except Exception reports it and the operation returns
MergeRaise ==
    /\ wk.task_type # "none"
    /\ wk.pc = "merge_source"
    /\ lv.source <= Len(wk.source_merge_folders)
    /\ wk' = [wk EXCEPT !.success = FALSE, !.pc = "return"]
    /\ Emit(Signal("error", "merging process", wk.source_merge_folders[lv.source]))
    /\ UNCHANGED <<win, threads, posted, rv, fs, fs0, lv>>

(***************************************************************************)
(* Worker._scan_folder_for_images                                          *)
(***************************************************************************)
BatchSize == 50

UpperCase == <<"A", "B", "C", "D", "E", "F", "G", "H", "I", "J", "K", "L", "M",
               "N", "O", "P", "Q", "R", "S", "T", "U", "V", "W", "X", "Y", "Z">>
LowerCase == <<"a", "b", "c", "d", "e", "f", "g", "h", "i", "j", "k", "l", "m",
               "n", "o", "p", "q", "r", "s", "t", "u", "v", "w", "x", "y", "z">>
LowerChar(c) == IF \E i \in 1..26 : UpperCase[i] = c
                THEN LowerCase[CHOOSE i \in 1..26 : UpperCase[i] = c] ELSE c
\* str.lower()
Lower(name) == [i \in 1..Len(name) |-> LowerChar(name[i])]

SUPPORTED_IMAGE_EXTENSIONS ==
    { <<".", "p", "n", "g">>, <<".", "j", "p", "g">>, <<".", "j", "p", "e", "g">>,
      <<".", "b", "m", "p">>, <<".", "g", "i", "f">>, <<".", "t", "i", "f">>,
      <<".", "t", "i", "f", "f">>, <<".", "w", "e", "b", "p">>,
      <<".", "h", "e", "i", "c">> }

\* item.is_file() and item.suffix.lower() in SUPPORTED_IMAGE_EXTENSIONS
IsImage(f, item) ==
    IsFile(f, item) /\ Lower(PathSuffix(BaseName(item))) \in SUPPORTED_IMAGE_EXTENSIONS

ScanBegin ==
    /\ wk.task_type # "none"
    /\ wk.pc = "scan"
    /\ IF ~IsDir(fs, wk.folder_to_scan)
       THEN /\ Emit(Signal("error", "not a directory", wk.folder_to_scan))
            /\ wk' = [wk EXCEPT !.pc = "return"]
            /\ UNCHANGED lv
       ELSE /\ Emit(Signal("progress", "scanning", wk.folder_to_scan))
            /\ lv' = [count |-> 0, paths_to_emit |-> <<>>,
                      items |-> Listed(Rglob(fs, wk.folder_to_scan))]
            /\ wk' = [wk EXCEPT !.pc = "scan_loop"]
    /\ UNCHANGED <<win, threads, posted, rv, fs, fs0>>

\* for item in folder_path.rglob("*"): one item
ScanItemStep(item) ==
    IF ~wk.is_running
    THEN /\ wk' = [wk EXCEPT !.pc = "return"]
         /\ Emit(Signal("progress", "scan cancelled", wk.folder_to_scan))
         /\ UNCHANGED lv
    ELSE IF ~IsImage(fs, item)
    THEN /\ lv' = [lv EXCEPT !.items = Tail(@)]
         /\ UNCHANGED <<wk, emitted>>
    ELSE IF Len(lv.paths_to_emit) + 1 >= BatchSize
    THEN /\ Emit(Signal("image_paths", "batch", Append(lv.paths_to_emit, item)))
         /\ lv' = [lv EXCEPT !.items = Tail(@), !.count = @ + 1,
                             !.paths_to_emit = <<>>]
         /\ UNCHANGED wk
    ELSE /\ lv' = [lv EXCEPT !.items = Tail(@), !.count = @ + 1,
                             !.paths_to_emit = Append(@, item)]
         /\ UNCHANGED <<wk, emitted>>

ScanItem ==
    /\ wk.task_type # "none"
    /\ wk.pc = "scan_loop"
    /\ lv.items # <<>>
    /\ ScanItemStep(Head(lv.items))
    /\ UNCHANGED <<win, threads, posted, rv, fs, fs0>>

\* ScanDone without the emission of the remaining paths
ScanDoneUnflushed ==
    /\ wk.task_type # "none"
    /\ wk.pc = "scan_loop"
    /\ lv.items = <<>>
    /\ Emit(Signal("progress", "scan complete", lv.count))
    /\ wk' = [wk EXCEPT !.pc = "return"]
    /\ UNCHANGED <<win, threads, posted, rv, fs, fs0, lv>>

\* after the loop: the remaining paths are emitted
ScanDone ==
    /\ wk.task_type # "none"
    /\ wk.pc = "scan_loop"
    /\ lv.items = <<>>
    /\ emitted' = (IF lv.paths_to_emit # <<>>
                   THEN Append(emitted, Signal("image_paths", "batch", lv.paths_to_emit))
                   ELSE emitted)
                  \o <<Signal("progress", "scan complete", lv.count)>>
    /\ wk' = [wk EXCEPT !.pc = "return"]
    /\ UNCHANGED <<win, threads, posted, rv, fs, fs0, lv>>

\* an exception inside the try block: reported and raised again
ScanRaise ==
    /\ wk.task_type # "none"
    /\ wk.pc = "scan_loop"
    /\ wk' = [wk EXCEPT !.pc = "raised"]
    /\ Emit(Signal("error", "during scan", wk.folder_to_scan))
    /\ UNCHANGED <<win, threads, posted, rv, fs, fs0, lv>>

(***************************************************************************)
(* Worker._populate_subfolders                                             *)
(***************************************************************************)
PopulateBegin ==
    /\ wk.task_type # "none"
    /\ wk.pc = "populate"
    /\ IF ~IsDir(fs, wk.root_folder_to_scan)
       THEN /\ Emit(Signal("error", "not a directory", wk.root_folder_to_scan))
            /\ wk' = [wk EXCEPT !.pc = "return"]
            /\ UNCHANGED lv
       ELSE /\ Emit(Signal("progress", "scanning for subfolders", wk.root_folder_to_scan))
            /\ lv' = [subdirs |-> <<>>, items |-> Listed(Glob(fs, wk.root_folder_to_scan, 1))]
            /\ wk' = [wk EXCEPT !.pc = "populate_loop"]
    /\ UNCHANGED <<win, threads, posted, rv, fs, fs0>>

\* for item in root_folder_path.iterdir(): one item
PopulateItemStep(item) ==
    IF ~wk.is_running
    THEN /\ wk' = [wk EXCEPT !.pc = "return"]
         /\ Emit(Signal("progress", "subfolder scan cancelled", wk.root_folder_to_scan))
         /\ UNCHANGED lv
    ELSE /\ lv' = [lv EXCEPT !.items = Tail(@),
                             !.subdirs = IF IsDir(fs, item) THEN Append(@, item) ELSE @]
         /\ UNCHANGED <<wk, emitted>>

PopulateItem ==
    /\ wk.task_type # "none"
    /\ wk.pc = "populate_loop"
    /\ lv.items # <<>>
    /\ PopulateItemStep(Head(lv.items))
    /\ UNCHANGED <<win, threads, posted, rv, fs, fs0>>

\* after the loop: the list is emitted if the task was not cancelled
PopulateDone ==
    /\ wk.task_type # "none"
    /\ wk.pc = "populate_loop"
    /\ lv.items = <<>>
    /\ emitted' = IF wk.is_running
                  THEN emitted \o <<Signal("subfolders_found", "list", lv.subdirs),
                                    Signal("progress", "found subfolders", Len(lv.subdirs))>>
                  ELSE emitted
    /\ wk' = [wk EXCEPT !.pc = "return"]
    /\ UNCHANGED <<win, threads, posted, rv, fs, fs0, lv>>

\* an exception inside the try block: reported and raised again
PopulateRaise ==
    /\ wk.task_type # "none"
    /\ wk.pc = "populate_loop"
    /\ wk' = [wk EXCEPT !.pc = "raised"]
    /\ Emit(Signal("error", "during subfolder scan", wk.root_folder_to_scan))
    /\ UNCHANGED <<win, threads, posted, rv, fs, fs0, lv>>

(***************************************************************************)
(* Worker._get_folder_preview_image                                        *)
(***************************************************************************)
max_depth == 2

\* the glob of each pass: "*" first, then "/".join(["*"] * depth) for
\* depth = 1 .. max_depth; a pattern of k stars matches the entries k levels
\* below the folder
PassStars(pass) == IF pass = 0 THEN 1 ELSE pass

PreviewBegin ==
    /\ wk.task_type # "none"
    /\ wk.pc = "preview"
    /\ IF ~IsDir(fs, wk.folder_to_scan)
       THEN /\ Emit(Signal("error", "not a directory", wk.folder_to_scan))
            /\ wk' = [wk EXCEPT !.pc = "return"]
            /\ UNCHANGED lv
       ELSE /\ lv' = [pass |-> 0, items |-> Listed(Glob(fs, wk.folder_to_scan, PassStars(0)))]
            /\ wk' = [wk EXCEPT !.pc = "preview_loop"]
            /\ UNCHANGED emitted
    /\ UNCHANGED <<win, threads, posted, rv, fs, fs0>>

\* for item in folder_path.glob(pattern): one item
PreviewItemStep(item) ==
    IF ~wk.is_running
    THEN /\ wk' = [wk EXCEPT !.pc = "return"]
         /\ UNCHANGED <<lv, emitted>>
    ELSE IF IsImage(fs, item) /\ item \notin fs.empty
    THEN /\ Emit(Signal("folder_preview_image", wk.folder_to_scan, item))
         /\ wk' = [wk EXCEPT !.pc = "return"]
         /\ UNCHANGED lv
    ELSE /\ lv' = [lv EXCEPT !.items = Tail(@)]
         /\ UNCHANGED <<wk, emitted>>

PreviewItem ==
    /\ wk.task_type # "none"
    /\ wk.pc = "preview_loop"
    /\ lv.items # <<>>
    /\ PreviewItemStep(Head(lv.items))
    /\ UNCHANGED <<win, threads, posted, rv, fs, fs0>>

\* the items of the pass are exhausted: the next pass, or no preview
PreviewPassDone ==
    /\ wk.task_type # "none"
    /\ wk.pc = "preview_loop"
    /\ lv.items = <<>>
    /\ IF lv.pass < max_depth
       THEN /\ lv' = [pass |-> lv.pass + 1,
                      items |-> Listed(Glob(fs, wk.folder_to_scan, PassStars(lv.pass + 1)))]
            /\ UNCHANGED <<wk, emitted>>
       ELSE /\ Emit(Signal("progress", "no preview image found", wk.folder_to_scan))
            /\ wk' = [wk EXCEPT !.pc = "return"]
            /\ UNCHANGED lv
    /\ UNCHANGED <<win, threads, posted, rv, fs, fs0>>

\* an exception inside the try block: reported, and the operation returns
PreviewRaise ==
    /\ wk.task_type # "none"
    /\ wk.pc = "preview_loop"
    /\ wk' = [wk EXCEPT !.pc = "return"]
    /\ Emit(Signal("error", "finding preview", wk.folder_to_scan))
    /\ UNCHANGED <<win, threads, posted, rv, fs, fs0, lv>>

(***************************************************************************)
(* One Worker on a small tree: a root with the folders x and y, the merge  *)
(* target x_merged, and files drawn from a fixed set.                      *)
(***************************************************************************)
MaxFiles == 2

Root == << <<"R">> >>
FolderX == Root \o << <<"x">> >>
FolderY == Root \o << <<"y">> >>
FolderZ == Root \o << <<"z">> >>     \* never a directory
NameA == <<"a", ".", "j", "p", "g">>
NameB == <<"b">>
NameC == <<"c", ".", "P", "N", "G">>

FileChoices ==
    { FolderX \o <<NameA>>,
      FolderX \o << <<"s">>, NameA >>,
      FolderY \o <<NameA>>,
      FolderY \o <<NameB>>,
      FolderX \o << <<"s">>, <<"t">>, NameC >> }

\* what the target folder holds before the merge
TargetChoices ==
    { {}, {NameA},
      Run(NameA, MaxCounter - 1) \cup {Stamped(NameA, stamp) : stamp \in Stamps} }

\* the directories on the way from the root to p, p excluded
Ancestors(p) == {SubSeq(p, 1, n) : n \in 1..(Len(p) - 1)}

Tree(files, empty) ==
    [dirs |-> {Root, FolderX, FolderY} \cup UNION {Ancestors(p) : p \in files},
     files |-> files, empty |-> empty \cap files]

FileSets == {F \in SUBSET FileChoices : Cardinality(F) <= MaxFiles}

\* the files of size 0
EmptyChoices == { {}, {FolderX \o <<NameA>>} }

WithTarget(f, listing) ==
    [f EXCEPT !.dirs = @ \cup {TargetDir},
              !.files = @ \cup ExistingIn(TargetDir, listing)]

NewWorker(task_type, folder_to_scan, root_folder_to_scan, source_folder_paths, target_folder_path) ==
    [task_type |-> task_type, folder_to_scan |-> folder_to_scan,
     root_folder_to_scan |-> root_folder_to_scan,
     source_merge_folders |-> source_folder_paths,
     target_merge_folder |-> target_folder_path,
     is_running |-> TRUE, success |-> FALSE, pc |-> "start", stopped |-> FALSE]

Workers ==
    {NewWorker("merge_subs", None, None, sources, TargetDir) :
        sources \in {<<FolderX>>, <<FolderX, FolderY>>, <<FolderZ, FolderX>>, <<>>}}
    \cup {NewWorker("scan_subfolder_images", folder, None, <<>>, None) :
        folder \in {FolderX, FolderZ, None}}
    \cup {NewWorker("get_folder_preview", folder, None, <<>>, None) :
        folder \in {FolderX, FolderZ}}
    \cup {NewWorker("populate_subfolders", None, root, <<>>, None) :
        root \in {Root, FolderZ, None}}

InitWorker ==
    /\ rv = NoResolver
    /\ wk \in Workers
    /\ \E files \in FileSets :
          IF wk.task_type = "merge_subs"
          THEN fs \in {Tree(files, {})}
                      \cup {WithTarget(Tree(files, {}), listing) : listing \in TargetChoices}
          ELSE fs \in {Tree(files, empty) : empty \in EmptyChoices}
    /\ fs0 = fs
    /\ lv = <<>>
    /\ emitted = <<>>
    /\ win = NoWindow
    /\ threads = <<>>
    /\ posted = <<>>

NextWorker ==
    \/ RunBegin \/ RunReturn \/ RunExcept \/ RunFinally \/ Stop \/ Terminate
    \/ MergeBegin \/ MergeSource \/ MergeItem \/ MergeSourceDone
    \/ MergeDelete \/ MergeRmdir \/ MergeRmdirDone \/ MergeRaise
    \/ ScanBegin \/ ScanItem \/ ScanDone \/ ScanRaise
    \/ PopulateBegin \/ PopulateItem \/ PopulateDone \/ PopulateRaise
    \/ PreviewBegin \/ PreviewItem \/ PreviewPassDone \/ PreviewRaise

SpecWorker == InitWorker /\ [][NextWorker]_vars

\* ---- a scan of a folder with many images ----
MaxImages == 101

\* the folder x with n images: one in the subfolder s, with an upper-case
\* extension, the others numbered; and a file that is no image
ScanTree(n) ==
    [dirs |-> {Root, FolderX, FolderX \o << <<"s">> >>},
     files |-> {FolderX \o <<ToDigits(i) \o <<".", "j", "p", "g">> >> : i \in 1..(n - 1)}
               \cup (IF n > 0 THEN {FolderX \o << <<"s">>, NameC >>} ELSE {})
               \cup {FolderX \o <<NameB>>},
     empty |-> {}]

\* no image, one, and the numbers around one and two full batches
ScanSizes == {n \in {0, 1, BatchSize - 1, BatchSize, BatchSize + 1,
                     2 * BatchSize, 2 * BatchSize + 1} : n <= MaxImages}

InitScan ==
    /\ rv = NoResolver
    /\ wk = NewWorker("scan_subfolder_images", FolderX, None, <<>>, None)
    /\ fs \in {ScanTree(n) : n \in ScanSizes}
    /\ fs0 = fs
    /\ lv = <<>>
    /\ emitted = <<>>
    /\ win = NoWindow
    /\ threads = <<>>
    /\ posted = <<>>

NextScan ==
    \/ RunBegin \/ RunReturn \/ RunExcept \/ RunFinally \/ Stop \/ Terminate
    \/ ScanBegin \/ ScanItem \/ ScanDone \/ ScanRaise

SpecScan == InitScan /\ [][NextScan]_vars

\* ---- a merge run twice ----
\* the merge has ended and a second Worker with the same sources and the
\* same target is run on what the first has left
MergeAgain ==
    /\ wk.task_type = "merge_subs"
    /\ wk.pc = "done"
    /\ Cardinality({i \in 1..Len(emitted) : emitted[i].sig = "finished"}) = 1
    /\ wk' = NewWorker("merge_subs", None, None,
                       wk.source_merge_folders, wk.target_merge_folder)
    /\ lv' = <<>>
    /\ UNCHANGED <<win, threads, posted, rv, fs, fs0, emitted>>

\* the target exists, empty or with a file named as one of the sources'
InitRerun ==
    /\ rv = NoResolver
    /\ wk \in {NewWorker("merge_subs", None, None, sources, TargetDir) :
                  sources \in {<<FolderX>>, <<FolderX, FolderY>>}}
    /\ \E files \in FileSets, listing \in {{}, {NameA}} :
          fs = WithTarget(Tree(files, {}), listing)
    /\ fs0 = fs
    /\ lv = <<>>
    /\ emitted = <<>>
    /\ win = NoWindow
    /\ threads = <<>>
    /\ posted = <<>>

NextRerun ==
    \/ RunBegin \/ RunReturn \/ RunFinally \/ Stop \/ Terminate
    \/ MergeBegin \/ MergeSource \/ MergeItem \/ MergeSourceDone
    \/ MergeDelete \/ MergeRmdir \/ MergeRmdirDone \/ MergeRaise
    \/ MergeAgain

SpecRerun == InitRerun /\ [][NextRerun]_vars

(***************************************************************************)
(* The window: ImageFolderTool (window.py).  Its handlers run on the main  *)
(* thread, one at a time; the signals of its Workers are queued for the    *)
(* main thread's event loop and delivered in the order they were posted.   *)
(* A Worker is named by its place in threads; 0 stands for None.  Here a   *)
(* Worker's operation takes one step for each notification it can emit;    *)
(* its loops are the subject of SpecWorker.                                *)
(***************************************************************************)
MaxThreads == 4
MaxPoolThreads == 7
MaxMergeThreads == 3
MaxStrandThreads == 4

\* a dict, as the set of its (key, value) pairs
Keys(d) == {e[1] : e \in d}
Values(d) == {e[2] : e \in d}
Get(d, k) == (CHOOSE e \in d : e[1] = k)[2]
Del(d, k) == {e \in d : e[1] # k}
Put(d, k, v) == Del(d, k) \cup {<<k, v>>}

Range(seq) == {seq[i] : i \in DOMAIN seq}

\* ---- the order of names ----
\* the characters of the names, in code point order
Alphabet ==
    <<".", "0", "1", "2", "3", "4", "5", "6", "7", "8", "9",
      "A", "B", "C", "D", "E", "F", "G", "H", "I", "J", "K", "L", "M",
      "N", "O", "P", "Q", "R", "S", "T", "U", "V", "W", "X", "Y", "Z", "_",
      "a", "b", "c", "d", "e", "f", "g", "h", "i", "j", "k", "l", "m",
      "n", "o", "p", "q", "r", "s", "t", "u", "v", "w", "x", "y", "z">>

Ord(c) == CHOOSE i \in DOMAIN Alphabet : Alphabet[i] = c

\* a < b for two str
RECURSIVE StrLess(_, _)
StrLess(a, b) ==
    IF b = <<>> THEN FALSE
    ELSE IF a = <<>> THEN TRUE
    ELSE IF Head(a) = Head(b) THEN StrLess(Tail(a), Tail(b))
    ELSE Ord(Head(a)) < Ord(Head(b))

IsDigit(c) == \E d \in 0..9 : Digit(d) = c

\* int(run) for a run of digits
RECURSIVE ToInt(_)
ToInt(run) ==
    IF run = <<>> THEN 0
    ELSE 10 * ToInt(SubSeq(run, 1, Len(run) - 1))
         + (CHOOSE d \in 0..9 : Digit(d) = run[Len(run)])

\* re.split(r'(\d+)', text): the pieces of text between its runs of digits
\* at the odd places, the runs of digits at the even places
RECURSIVE SplitRuns(_, _, _)
SplitRuns(text, run, digits) ==
    IF text = <<>> THEN (IF digits THEN <<run, <<>> >> ELSE <<run>>)
    ELSE IF IsDigit(Head(text)) = digits
    THEN SplitRuns(Tail(text), Append(run, Head(text)), digits)
    ELSE <<run>> \o SplitRuns(Tail(text), <<Head(text)>>, ~digits)

natural_sort_key(text) == SplitRuns(text, <<>>, FALSE)

\* ka < kb for two keys: lists compared place by place, int with int and
\* lower-cased str with lower-cased str
RECURSIVE KeyLess(_, _, _)
KeyLess(ka, kb, i) ==
    IF i > Len(kb) THEN FALSE
    ELSE IF i > Len(ka) THEN TRUE
    ELSE IF i % 2 = 0
    THEN IF ToInt(ka[i]) = ToInt(kb[i]) THEN KeyLess(ka, kb, i + 1)
         ELSE ToInt(ka[i]) < ToInt(kb[i])
    ELSE IF Lower(ka[i]) = Lower(kb[i]) THEN KeyLess(ka, kb, i + 1)
         ELSE StrLess(Lower(ka[i]), Lower(kb[i]))

\* the sort keys in use: the natural key, x.text().lower(), and p.name
NameLess(mode, a, b) ==
    CASE mode = "natural" -> KeyLess(natural_sort_key(a), natural_sort_key(b), 1)
      [] mode = "lower" -> StrLess(Lower(a), Lower(b))
      [] mode = "name" -> StrLess(a, b)

\* list.sort(key = ...) of entries that carry a path: stable
RECURSIVE SortByName(_, _)
SortByName(entries, mode) ==
    IF entries = <<>> THEN <<>>
    ELSE LET n == Len(entries)
             x == entries[n]
             sorted == SortByName(SubSeq(entries, 1, n - 1), mode)
             k == Cardinality({i \in DOMAIN sorted :
                     ~NameLess(mode, BaseName(x.path), BaseName(sorted[i].path))})
         IN SubSeq(sorted, 1, k) \o <<x>> \o SubSeq(sorted, k + 1, Len(sorted))

\* "_merged" in name
Contains(name, part) ==
    \E i \in 0..(Len(name) - Len(part)) : SubSeq(name, i + 1, i + Len(part)) = part

MergedMark == <<"_", "m", "e", "r", "g", "e", "d">>

\* ---- the window's fields ----
\* ImageFolderTool.__init__; items is the content of subfolder_list_widget,
\* ui_enabled and merge_enabled the enabled state of the widgets; pc, then,
\* worker_to_stop, arg_path and arg_sender are the main thread's position and
\* locals while a handler is inside stop_worker_thread; active_preview_tasks
\* and task_at are the list and the place of the loop of closeEvent
NewWindow ==
    [current_root_folder |-> None, image_files_in_preview |-> <<>>,
     worker_thread |-> 0, current_task_type |-> "none",
     last_previewed_folder |-> None,
     folder_preview_tasks |-> {}, folder_preview_cache |-> {},
     waiting_folders |-> <<>>, checked_folder_names_cache |-> {},
     last_merged_sources |-> <<>>, last_merged_target |-> None,
     use_natural_sort |-> TRUE,
     items |-> <<>>, ui_enabled |-> TRUE, merge_enabled |-> FALSE,
     pc |-> "idle", then |-> "none", worker_to_stop |-> 0,
     arg_path |-> None, arg_sender |-> 0,
     active_preview_tasks |-> <<>>, task_at |-> 1]

\* a Worker object with the locals of its operation
NewThread(worker) == [worker |-> worker, source |-> 1, items_to_move |-> <<>>]

\* QThread.isRunning(): from start() until the thread has ended
ThreadRunning(t) == t.worker.pc \notin {"done", "terminated"}

\* Worker.stop()
stop(t) == [t EXCEPT !.worker.is_running = FALSE]

Item(path, checked) == [path |-> path, checked |-> checked, icon |-> None]

\* get_checked_subfolder_items
get_checked_subfolder_items(w) == SelectSeq(w.items, LAMBDA item : item.checked)

update_merge_button_state(w) ==
    [w EXCEPT !.merge_enabled =
        /\ Len(get_checked_subfolder_items(w)) > 0
        /\ w.current_root_folder # None]

enable_ui(w, enabled) ==
    IF enabled /\ w.current_root_folder # None
    THEN update_merge_button_state([w EXCEPT !.ui_enabled = TRUE])
    ELSE [w EXCEPT !.ui_enabled = enabled, !.merge_enabled = FALSE]

handle_error(w) ==
    IF w.worker_thread # 0
    THEN [enable_ui(w, TRUE) EXCEPT !.worker_thread = 0, !.current_task_type = "none"]
    ELSE w

clear_preview_area(w) == [w EXCEPT !.image_files_in_preview = <<>>]

\* the first place of the list whose item is for the folder, 0 if none
ItemRow(items, folder_path) ==
    IF \E i \in DOMAIN items : items[i].path = folder_path
    THEN CHOOSE i \in DOMAIN items :
            /\ items[i].path = folder_path
            /\ \A j \in 1..(i - 1) : items[j].path # folder_path
    ELSE 0

set_folder_thumbnail(w, f, folder_path, image_path) ==
    LET cached == [w EXCEPT !.folder_preview_cache = Put(@, folder_path, image_path)]
        row == ItemRow(w.items, folder_path)
    IN IF ~IsFile(f, image_path) \/ row = 0 THEN cached
       ELSE [cached EXCEPT !.items[row].icon = image_path]

max_workers == 2

\* st is the pair of the window's fields (w) and its Workers (t)
request_folder_preview(st, f, folder_path) ==
    IF folder_path = None \/ ~IsDir(f, folder_path) THEN st
    ELSE IF /\ folder_path \in Keys(st.w.folder_preview_cache)
            /\ Exists(f, Get(st.w.folder_preview_cache, folder_path))
    THEN [st EXCEPT !.w = set_folder_thumbnail(st.w, f, folder_path,
                               Get(st.w.folder_preview_cache, folder_path))]
    ELSE IF folder_path \in Keys(st.w.folder_preview_tasks) THEN st
    ELSE IF Cardinality(st.w.folder_preview_tasks) >= max_workers
    THEN [st EXCEPT !.w.waiting_folders = Append(@, folder_path)]
    ELSE [w |-> [st.w EXCEPT !.folder_preview_tasks =
                                Put(@, folder_path, Len(st.t) + 1)],
          t |-> Append(st.t, NewThread(
                   NewWorker("get_folder_preview", folder_path, None, <<>>, None)))]

\* stop_worker_thread up to its wait: the position goes to "waiting" when a
\* running Worker was told to stop, and to "stopped" when there was none
stop_worker_thread(st, then, arg_path, arg_sender) ==
    LET worker_to_stop == st.w.worker_thread
        called == [st.w EXCEPT !.then = then, !.arg_path = arg_path,
                               !.arg_sender = arg_sender]
    IN IF worker_to_stop # 0 /\ ThreadRunning(st.t[worker_to_stop])
       THEN [w |-> [called EXCEPT !.pc = "waiting", !.worker_to_stop = worker_to_stop],
             t |-> [st.t EXCEPT ![worker_to_stop] = stop(@)]]
       ELSE [w |-> [called EXCEPT !.pc = "stopped", !.worker_to_stop = 0],
             t |-> st.t]

\* stop_worker_thread after its wait
StopWorkerThreadEnd(w) ==
    IF w.worker_thread = w.worker_to_stop
    THEN [enable_ui([w EXCEPT !.worker_thread = 0, !.current_task_type = "none"], TRUE)
             EXCEPT !.pc = "stopped"]
    ELSE [w EXCEPT !.pc = "stopped"]

\* the handler that was inside stop_worker_thread returns
Returned(w) ==
    [w EXCEPT !.pc = "idle", !.then = "none", !.worker_to_stop = 0,
              !.arg_path = None, !.arg_sender = 0]

\* populate_subfolder_list after its stop_worker_thread
populate_subfolder_list(st) ==
    LET w == st.w
        checked == {BaseName(w.items[i].path) :
                        i \in {j \in DOMAIN w.items : w.items[j].checked}}
        cleared == enable_ui([w EXCEPT !.checked_folder_names_cache = checked,
                                       !.items = <<>>], FALSE)
        stopped == [i \in DOMAIN st.t |->
                        IF i \in Values(w.folder_preview_tasks) /\ ThreadRunning(st.t[i])
                        THEN stop(st.t[i]) ELSE st.t[i]]
    IN [w |-> [cleared EXCEPT !.folder_preview_tasks = {},
                              !.waiting_folders = <<>>,
                              !.current_task_type = "populate_subfolders",
                              !.worker_thread = Len(st.t) + 1],
        t |-> Append(stopped, NewThread(
                 NewWorker("populate_subfolders", None, w.current_root_folder, <<>>, None)))]

start_subfolder_scan(st, folder_path) ==
    [w |-> [enable_ui(st.w, FALSE) EXCEPT !.current_task_type = "scan_subfolder_images",
                                          !.worker_thread = Len(st.t) + 1],
     t |-> Append(st.t, NewThread(
              NewWorker("scan_subfolder_images", folder_path, None, <<>>, None)))]

start_merge_task(st, source_paths, target_path) ==
    [w |-> [enable_ui(st.w, FALSE) EXCEPT !.current_task_type = "merge_subs",
                                          !.worker_thread = Len(st.t) + 1],
     t |-> Append(st.t, NewThread(
              NewWorker("merge_subs", None, None, source_paths, target_path)))]

\* sort_subfolder_list leaving every item unchecked
sort_subfolder_list_unchecked(w) ==
    LET sorted == SortByName(w.items, IF w.use_natural_sort THEN "natural" ELSE "lower")
    IN [w EXCEPT !.items = [i \in DOMAIN sorted |-> [sorted[i] EXCEPT !.checked = FALSE]]]

\* sort_subfolder_list: the checked state is kept by folder path
sort_subfolder_list(w) ==
    LET checked_items == [p \in {w.items[i].path : i \in DOMAIN w.items} |->
            w.items[CHOOSE i \in DOMAIN w.items :
                        /\ w.items[i].path = p
                        /\ \A j \in (i + 1)..Len(w.items) : w.items[j].path # p].checked]
        sorted == SortByName(w.items, IF w.use_natural_sort THEN "natural" ELSE "lower")
    IN [w EXCEPT !.items = [i \in DOMAIN sorted |->
                               [sorted[i] EXCEPT !.checked = checked_items[sorted[i].path]]]]

\* ---- the Workers' threads ----
Posted(sig, sender, a, b) == [sig |-> sig, sender |-> sender, a |-> a, b |-> b]

\* the main thread is between two waits: its handlers are not interleaved
\* with the steps of the threads
MainYields == win.pc \notin {"stopped", "closing"}

\* the thread has ended: the locals of the operation are gone
Ended(t, pc, success) ==
    NewThread([t.worker EXCEPT !.pc = pc, !.is_running = FALSE, !.success = success])

\* the operation emits signals and returns or raises; run sets _success and
\* its finally block emits finished
RunEnds(i, signals, success) ==
    /\ threads' = [threads EXCEPT ![i] = Ended(@, "done", success)]
    /\ posted' = posted \o signals
                   \o <<Posted("finished", i, threads[i].worker.task_type, success)>>

\* Worker.run up to the call of the operation
ThreadRunBegin(i) ==
    /\ MainYields
    /\ threads[i].worker.pc = "start"
    /\ threads' = [threads EXCEPT ![i].worker.is_running = TRUE,
                                  ![i].worker.success = FALSE,
                                  ![i].worker.pc = "run"]
    /\ UNCHANGED <<win, posted, rv, fs, fs0, wk, lv, emitted>>

\* the images a scan delivers
ScanImages(f, folder) == SelectSeq(Listed(Rglob(f, folder)), LAMBDA p : IsImage(f, p))

\* _scan_folder_for_images and the rest of run
ThreadScan(i) ==
    LET t == threads[i]
        folder == t.worker.folder_to_scan
    IN /\ MainYields
       /\ t.worker.task_type = "scan_subfolder_images"
       /\ t.worker.pc = "run"
       /\ IF ~IsDir(fs, folder)
          THEN RunEnds(i, <<Posted("error", i, "not a directory", folder)>>, TRUE)
          ELSE IF t.worker.is_running /\ ScanImages(fs, folder) # <<>>
          THEN RunEnds(i, <<Posted("image_paths", i, ScanImages(fs, folder), None)>>, TRUE)
          ELSE RunEnds(i, <<>>, TRUE)
       /\ UNCHANGED <<win, rv, fs, fs0, wk, lv, emitted>>

\* _populate_subfolders and the rest of run
ThreadPopulate(i) ==
    LET t == threads[i]
        root_folder_path == t.worker.root_folder_to_scan
        subdirs == SelectSeq(Listed(Glob(fs, root_folder_path, 1)), LAMBDA p : IsDir(fs, p))
    IN /\ MainYields
       /\ t.worker.task_type = "populate_subfolders"
       /\ t.worker.pc = "run"
       /\ IF ~IsDir(fs, root_folder_path)
          THEN RunEnds(i, <<Posted("error", i, "not a directory", root_folder_path)>>, TRUE)
          ELSE IF t.worker.is_running
          THEN RunEnds(i, <<Posted("subfolders_found", i, subdirs, None)>>, TRUE)
          ELSE RunEnds(i, <<>>, TRUE)
       /\ UNCHANGED <<win, rv, fs, fs0, wk, lv, emitted>>

\* the images the passes of _get_folder_preview_image come to, in order
PreviewImages(f, folder) ==
    SelectSeq(Listed(Glob(f, folder, PassStars(0))) \o Listed(Glob(f, folder, PassStars(1)))
                \o Listed(Glob(f, folder, PassStars(2))),
              LAMBDA p : IsImage(f, p) /\ p \notin f.empty)

\* _get_folder_preview_image and the rest of run
ThreadPreview(i) ==
    LET t == threads[i]
        folder == t.worker.folder_to_scan
    IN /\ MainYields
       /\ t.worker.task_type = "get_folder_preview"
       /\ t.worker.pc = "run"
       /\ IF ~IsDir(fs, folder)
          THEN RunEnds(i, <<Posted("error", i, "not a directory", folder)>>, TRUE)
          ELSE IF t.worker.is_running /\ PreviewImages(fs, folder) # <<>>
          THEN RunEnds(i, <<Posted("folder_preview_image", i, folder,
                                   Head(PreviewImages(fs, folder)))>>, TRUE)
          ELSE RunEnds(i, <<>>, TRUE)
       /\ UNCHANGED <<win, rv, fs, fs0, wk, lv, emitted>>

\* _merge_subfolders_to_target up to its loop
ThreadMergeBegin(i) ==
    LET t == threads[i]
    IN /\ MainYields
       /\ t.worker.task_type = "merge_subs"
       /\ t.worker.pc = "run"
       /\ IF ~Exists(fs, t.worker.target_merge_folder)
          THEN RunEnds(i, <<Posted("error", i, "target does not exist",
                                   t.worker.target_merge_folder)>>, TRUE)
          ELSE /\ threads' = [threads EXCEPT ![i].worker.pc = "merge"]
               /\ UNCHANGED posted
       /\ UNCHANGED <<win, rv, fs, fs0, wk, lv, emitted>>

\* for source_folder in self.source_merge_folders: the next source is listed;
\* after the last one the empty directories of the sources are deleted, and
\* run goes on to its end
ThreadMergeSource(i) ==
    LET t == threads[i]
        sources == t.worker.source_merge_folders
        empty_dirs == UNION {WalkEmptyDirs(fs, sources[k]) : k \in DOMAIN sources}
    IN /\ MainYields
       /\ t.worker.task_type = "merge_subs"
       /\ t.worker.pc = "merge"
       /\ t.items_to_move = <<>>
       /\ IF t.source > Len(sources)
          THEN /\ RunEnds(i, <<>>, TRUE)
               /\ fs' = IF t.worker.is_running
                        THEN [fs EXCEPT !.dirs = @ \ empty_dirs] ELSE fs
          ELSE IF ~t.worker.is_running
          THEN /\ RunEnds(i, <<>>, TRUE)
               /\ UNCHANGED fs
          ELSE IF ~IsDir(fs, sources[t.source])
          THEN /\ threads' = [threads EXCEPT ![i].source = @ + 1]
               /\ posted' = Append(posted, Posted("error", i, "not a valid directory",
                                                  sources[t.source]))
               /\ UNCHANGED fs
          ELSE /\ threads' = [threads EXCEPT
                                ![i].source = @ + 1,
                                ![i].items_to_move = Listed(Rglob(fs, sources[t.source]))]
               /\ UNCHANGED <<fs, posted>>
       /\ UNCHANGED <<win, rv, fs0, wk, lv, emitted>>

\* for item_path in items_to_move: one item
ThreadMergeItem(i) ==
    LET t == threads[i]
        item_path == Head(t.items_to_move)
    IN /\ MainYields
       /\ t.worker.task_type = "merge_subs"
       /\ t.worker.pc = "merge"
       /\ t.items_to_move # <<>>
       /\ IF ~t.worker.is_running
          THEN /\ RunEnds(i, <<>>, TRUE)
               /\ UNCHANGED fs
          ELSE IF ~IsFile(fs, item_path)
          THEN /\ threads' = [threads EXCEPT ![i].items_to_move = Tail(@)]
               /\ UNCHANGED <<fs, posted>>
          ELSE \E stamp \in Stamps :
                 LET target_path == generate_unique_target_path(
                                        BaseName(item_path), t.worker.target_merge_folder,
                                        fs.dirs \cup fs.files, stamp)
                 IN \E move_ok \in BOOLEAN :
                      /\ threads' = [threads EXCEPT ![i].items_to_move = Tail(@)]
                      /\ IF target_path # None /\ move_ok
                         THEN /\ fs' = Moved(fs, item_path, target_path)
                              /\ UNCHANGED posted
                         ELSE /\ posted' = Append(posted,
                                              Posted("error", i, "skipped", item_path))
                              /\ UNCHANGED fs
       /\ UNCHANGED <<win, rv, fs0, wk, lv, emitted>>

\* ---- the main thread: the user's actions ----
\* a root with four folders, an image in each: two previews run and two wait
PoolNames == {"w", "x", "y", "z"}
PoolFolder(c) == Root \o << <<c>> >>
PoolTree ==
    [dirs |-> {Root} \cup {PoolFolder(c) : c \in PoolNames},
     files |-> {PoolFolder(c) \o <<NameA>> : c \in PoolNames},
     empty |-> {}]

\* a handler may create Workers while fewer than MaxThreads exist, fewer than
\* MaxPoolThreads on the root with four folders
\* the root with the folders x and x_merged
XMerged == Root \o << <<"x">> \o MergedMark >>

ConflictTree ==
    [dirs |-> {Root, FolderX, XMerged},
     files |-> {FolderX \o <<NameA>>, XMerged \o <<NameA>>},
     empty |-> {}]

\* the root with four folders, y holding a second file
StrandTree ==
    [PoolTree EXCEPT !.files = @ \cup {PoolFolder("y") \o <<NameB>>}]

\* the Worker objects a run creates
ThreadBound ==
    IF fs0 = PoolTree THEN MaxPoolThreads
    ELSE IF fs0 = ConflictTree THEN MaxMergeThreads
    ELSE IF fs0 = StrandTree THEN MaxStrandThreads
    ELSE MaxThreads

Becomes(st) ==
    /\ Len(st.t) <= ThreadBound
    /\ win' = st.w
    /\ threads' = st.t

Here == [w |-> win, t |-> threads]

\* select_root_folder up to the wait of its stop_worker_thread
SelectRootFolder ==
    /\ win.pc = "idle"
    /\ win.ui_enabled
    /\ Becomes(stop_worker_thread(Here, "select_root_folder", None, 0))
    /\ UNCHANGED <<posted, rv, fs, fs0, wk, lv, emitted>>

\* a second root, with the folder y
OtherRoot == << <<"S">> >>

RootsTree ==
    [dirs |-> {Root, FolderX, OtherRoot, OtherRoot \o << <<"y">> >>},
     files |-> {FolderX \o <<NameA>>, OtherRoot \o << <<"y">>, NameA>>},
     empty |-> {}]

\* the directories the user picks in the dialog of select_root_folder
Roots == IF fs0 = RootsTree THEN {Root, OtherRoot} ELSE {Root}

\* select_root_folder from its dialog on: the user picks a root or cancels
SelectRootFolderChosen ==
    /\ win.pc = "stopped"
    /\ win.then = "select_root_folder"
    /\ \E folder \in {None} \cup Roots :
          IF folder = None \/ ~IsDir(fs, folder)
          THEN Becomes([Here EXCEPT !.w = Returned(win)])
          ELSE Becomes(populate_subfolder_list(
                  [Here EXCEPT !.w = [Returned(win) EXCEPT
                        !.current_root_folder = folder,
                        !.items = <<>>,
                        !.image_files_in_preview = <<>>,
                        !.merge_enabled = FALSE,
                        !.last_previewed_folder = None,
                        !.folder_preview_cache = {},
                        !.folder_preview_tasks = {},
                        !.waiting_folders = <<>>,
                        !.checked_folder_names_cache = {}]]))
    /\ UNCHANGED <<posted, rv, fs, fs0, wk, lv, emitted>>

\* the items whose check box the user clicks in SpecWindow: those of folder x
Checkable == {FolderX}

\* the user checks or unchecks an item: itemChanged, update_merge_button_state
ItemChanged(row) ==
    /\ win.pc = "idle"
    /\ win.ui_enabled
    /\ row \in DOMAIN win.items
    /\ win' = update_merge_button_state([win EXCEPT !.items[row].checked = ~@])
    /\ UNCHANGED <<threads, posted, rv, fs, fs0, wk, lv, emitted>>

\* toggle_folder_sort: the button, which enable_ui leaves enabled, is clicked
ToggleFolderSort ==
    /\ win.pc = "idle"
    /\ win' = sort_subfolder_list([win EXCEPT !.use_natural_sort = ~@])
    /\ UNCHANGED <<threads, posted, rv, fs, fs0, wk, lv, emitted>>

\* trigger_subfolder_preview up to the wait of its stop_worker_thread: the
\* user makes the item of a row the current one
TriggerSubfolderPreview(row) ==
    /\ win.pc = "idle"
    /\ win.ui_enabled
    /\ row \in DOMAIN win.items
    /\ LET subfolder_path == win.items[row].path
       IN /\ IsDir(fs, subfolder_path)
          /\ ~(/\ subfolder_path = win.last_previewed_folder
               /\ win.worker_thread # 0
               /\ win.current_task_type = "scan_subfolder_images")
          /\ Becomes(stop_worker_thread(Here, "trigger_subfolder_preview", subfolder_path, 0))
    /\ UNCHANGED <<posted, rv, fs, fs0, wk, lv, emitted>>

\* trigger_subfolder_preview after its stop_worker_thread
TriggerSubfolderPreviewScan ==
    /\ win.pc = "stopped"
    /\ win.then = "trigger_subfolder_preview"
    /\ Becomes(start_subfolder_scan(
          [Here EXCEPT !.w = [clear_preview_area(Returned(win)) EXCEPT
                                 !.last_previewed_folder = win.arg_path]],
          win.arg_path))
    /\ UNCHANGED <<posted, rv, fs, fs0, wk, lv, emitted>>

\* confirm_and_start_merge_to_new up to the wait of its stop_worker_thread
ConfirmMerge ==
    /\ win.pc = "idle"
    /\ win.merge_enabled
    /\ win.current_root_folder # None
    /\ Becomes(stop_worker_thread(Here, "confirm_and_start_merge_to_new", None, 0))
    /\ UNCHANGED <<posted, rv, fs, fs0, wk, lv, emitted>>

\* MergeTarget appending "_merged" whatever the first name is
MergeTargetPlain(w) ==
    LET checked_items == get_checked_subfolder_items(w)
        first_source_name == BaseName(SortByName(checked_items, "name")[1].path)
    IN w.current_root_folder \o <<first_source_name \o MergedMark>>

\* the target of a merge of the checked items
MergeTarget(w) ==
    LET checked_items == get_checked_subfolder_items(w)
        first_source_name == BaseName(SortByName(checked_items, "name")[1].path)
    IN w.current_root_folder \o
         <<IF Contains(Lower(first_source_name), MergedMark)
           THEN first_source_name \o <<"1">>
           ELSE first_source_name \o MergedMark>>

\* confirm_and_start_merge_to_new without the test of the target against the
\* sources
ConfirmMergeStartUntested ==
    /\ win.pc = "stopped"
    /\ win.then = "confirm_and_start_merge_to_new"
    /\ LET checked_items == get_checked_subfolder_items(win)
           source_folders == [k \in DOMAIN checked_items |-> checked_items[k].path]
       IN IF \/ checked_items = <<>>
             \/ \E k \in DOMAIN source_folders : ~IsDir(fs, source_folders[k])
          THEN Becomes([Here EXCEPT !.w = Returned(win)]) /\ UNCHANGED fs
          ELSE \E reply \in {"Yes", "Cancel"}, mkdir_ok \in BOOLEAN :
                 IF reply = "Cancel"
                 THEN Becomes([Here EXCEPT !.w = Returned(win)]) /\ UNCHANGED fs
                 ELSE IF ~mkdir_ok
                 THEN Becomes([Here EXCEPT !.w = handle_error(Returned(win))])
                      /\ UNCHANGED fs
                 ELSE /\ fs' = [fs EXCEPT !.dirs = @ \cup {MergeTarget(win)}]
                      /\ Becomes(start_merge_task(
                            [Here EXCEPT !.w = [Returned(win) EXCEPT
                                  !.last_merged_sources = source_folders,
                                  !.last_merged_target = MergeTarget(win)]],
                            source_folders, MergeTarget(win)))
    /\ UNCHANGED <<posted, rv, fs0, wk, lv, emitted>>

\* confirm_and_start_merge_to_new after its stop_worker_thread
ConfirmMergeStart ==
    /\ win.pc = "stopped"
    /\ win.then = "confirm_and_start_merge_to_new"
    /\ LET checked_items == get_checked_subfolder_items(win)
           source_folders == [k \in DOMAIN checked_items |-> checked_items[k].path]
       IN IF \/ checked_items = <<>>
             \/ \E k \in DOMAIN source_folders : ~IsDir(fs, source_folders[k])
          THEN Becomes([Here EXCEPT !.w = Returned(win)]) /\ UNCHANGED fs
          ELSE IF MergeTarget(win) \in Range(source_folders)
          THEN Becomes([Here EXCEPT !.w = Returned(win)]) /\ UNCHANGED fs
          ELSE \E reply \in {"Yes", "Cancel"}, mkdir_ok \in BOOLEAN :
                 IF reply = "Cancel"
                 THEN Becomes([Here EXCEPT !.w = Returned(win)]) /\ UNCHANGED fs
                 ELSE IF ~mkdir_ok
                 THEN Becomes([Here EXCEPT !.w = handle_error(Returned(win))])
                      /\ UNCHANGED fs
                 ELSE /\ fs' = [fs EXCEPT !.dirs = @ \cup {MergeTarget(win)}]
                      /\ Becomes(start_merge_task(
                            [Here EXCEPT !.w = [Returned(win) EXCEPT
                                  !.last_merged_sources = source_folders,
                                  !.last_merged_target = MergeTarget(win)]],
                            source_folders, MergeTarget(win)))
    /\ UNCHANGED <<posted, rv, fs0, wk, lv, emitted>>

\* worker_to_stop.wait(2000) returns true: the thread has ended
WaitReturns ==
    /\ win.pc = "waiting"
    /\ ~ThreadRunning(threads[win.worker_to_stop])
    /\ win' = StopWorkerThreadEnd(win)
    /\ UNCHANGED <<threads, posted, rv, fs, fs0, wk, lv, emitted>>

\* worker_to_stop.wait(2000) times out and stop_worker_thread goes on without
\* terminate()
WaitTimesOutNoTerminate ==
    /\ win.pc = "waiting"
    /\ ThreadRunning(threads[win.worker_to_stop])
    /\ win' = StopWorkerThreadEnd(win)
    /\ UNCHANGED <<threads, posted, rv, fs, fs0, wk, lv, emitted>>

\* worker_to_stop.wait(2000) times out: terminate() and wait()
WaitTimesOut ==
    /\ win.pc = "waiting"
    /\ ThreadRunning(threads[win.worker_to_stop])
    /\ threads' = [threads EXCEPT ![win.worker_to_stop] = Ended(@, "terminated", FALSE)]
    /\ win' = StopWorkerThreadEnd(win)
    /\ UNCHANGED <<posted, rv, fs, fs0, wk, lv, emitted>>

\* ---- the main thread: closeEvent ----
\* list(d.items()): a dict keeps the order of insertion, which is the order
\* in which the Workers were created
DictItems(d) ==
    CHOOSE s \in [1..Cardinality(d) -> d] :
        \A a, b \in 1..Cardinality(d) : a < b => s[a][2] < s[b][2]

\* closeEvent up to the wait of its stop_worker_thread
CloseEvent ==
    /\ win.pc = "idle"
    /\ Becomes(stop_worker_thread(Here, "closeEvent", None, 0))
    /\ UNCHANGED <<posted, rv, fs, fs0, wk, lv, emitted>>

\* closeEvent after its stop_worker_thread: active_preview_tasks
CloseEventPreviews ==
    /\ win.pc = "stopped"
    /\ win.then = "closeEvent"
    /\ win' = [win EXCEPT !.pc = "closing",
                          !.active_preview_tasks = DictItems(win.folder_preview_tasks),
                          !.task_at = 1]
    /\ UNCHANGED <<threads, posted, rv, fs, fs0, wk, lv, emitted>>

\* for folder_path, worker in active_preview_tasks: a running Worker is told
\* to stop and waited for; after the loop the pool is cleared and the window
\* is closed
CloseEventNext ==
    /\ win.pc = "closing"
    /\ IF win.task_at > Len(win.active_preview_tasks)
       THEN /\ win' = [win EXCEPT !.folder_preview_tasks = {},
                                  !.waiting_folders = <<>>,
                                  !.pc = "closed"]
            /\ UNCHANGED threads
       ELSE LET worker == win.active_preview_tasks[win.task_at][2]
            IN IF ThreadRunning(threads[worker])
               THEN /\ threads' = [threads EXCEPT ![worker] = stop(@)]
                    /\ win' = [win EXCEPT !.pc = "closing_wait"]
               ELSE /\ win' = [win EXCEPT !.task_at = @ + 1]
                    /\ UNCHANGED threads
    /\ UNCHANGED <<posted, rv, fs, fs0, wk, lv, emitted>>

\* worker.wait(500) returns true, or times out: terminate() and wait(); the
\* Worker is popped from folder_preview_tasks
CloseEventWait ==
    /\ win.pc = "closing_wait"
    /\ LET e == win.active_preview_tasks[win.task_at]
       IN /\ threads' = IF ThreadRunning(threads[e[2]])
                        THEN [threads EXCEPT ![e[2]] = Ended(@, "terminated", FALSE)]
                        ELSE threads
          /\ win' = [win EXCEPT !.folder_preview_tasks = Del(@, e[1]),
                                !.task_at = @ + 1,
                                !.pc = "closing"]
    /\ UNCHANGED <<posted, rv, fs, fs0, wk, lv, emitted>>

\* ---- the main thread: the slots of the Workers' signals ----
Delivered(sig) ==
    /\ win.pc = "idle"
    /\ posted # <<>>
    /\ Head(posted).sig = sig
    /\ posted' = Tail(posted)

\* handle_error, the slot of every Worker's error signal
HandleError ==
    /\ Delivered("error")
    /\ win' = handle_error(win)
    /\ UNCHANGED <<threads, rv, fs, fs0, wk, lv, emitted>>

\* add_image_paths_to_list adding whatever batch arrives
AddImagePathsToListAny ==
    /\ Delivered("image_paths")
    /\ win' = [win EXCEPT !.image_files_in_preview = @ \o Head(posted).a]
    /\ UNCHANGED <<threads, rv, fs, fs0, wk, lv, emitted>>

\* add_image_paths_to_list
AddImagePathsToList ==
    /\ Delivered("image_paths")
    /\ win' = IF \/ Head(posted).sender # win.worker_thread
                 \/ win.current_task_type # "scan_subfolder_images"
              THEN win
              ELSE [win EXCEPT !.image_files_in_preview = @ \o Head(posted).a]
    /\ UNCHANGED <<threads, rv, fs, fs0, wk, lv, emitted>>

\* set_folder_thumbnail as the slot of folder_preview_image
SetFolderThumbnail ==
    /\ Delivered("folder_preview_image")
    /\ win' = set_folder_thumbnail(win, fs, Head(posted).a, Head(posted).b)
    /\ UNCHANGED <<threads, rv, fs, fs0, wk, lv, emitted>>

\* AddSubdirs adding every item unchecked
RECURSIVE AddSubdirsUnchecked(_, _, _, _)
AddSubdirsUnchecked(acc, f, subdirs, cached_thumbnails_by_name) ==
    IF subdirs = <<>> THEN acc
    ELSE LET subdir == Head(subdirs)
             w == acc.w
             added == [w EXCEPT !.items = Append(@, Item(subdir, FALSE))]
             next ==
                IF BaseName(subdir) \in Keys(cached_thumbnails_by_name)
                THEN LET cached_image_path == Get(cached_thumbnails_by_name, BaseName(subdir))
                     IN IF IsFile(f, cached_image_path)
                        THEN [w |-> set_folder_thumbnail(added, f, subdir, cached_image_path),
                              need |-> acc.need]
                        ELSE [w |-> [added EXCEPT !.folder_preview_cache = Del(@, subdir)],
                              need |-> Append(acc.need, subdir)]
                ELSE [w |-> added, need |-> Append(acc.need, subdir)]
         IN AddSubdirsUnchecked(next, f, Tail(subdirs), cached_thumbnails_by_name)

\* for subdir in subdirs: the items are added, and the folders without a
\* usable cached thumbnail collected in need
RECURSIVE AddSubdirs(_, _, _, _)
AddSubdirs(acc, f, subdirs, cached_thumbnails_by_name) ==
    IF subdirs = <<>> THEN acc
    ELSE LET subdir == Head(subdirs)
             w == acc.w
             added == [w EXCEPT !.items = Append(@,
                          Item(subdir, BaseName(subdir) \in w.checked_folder_names_cache))]
             next ==
                IF BaseName(subdir) \in Keys(cached_thumbnails_by_name)
                THEN LET cached_image_path == Get(cached_thumbnails_by_name, BaseName(subdir))
                     IN IF IsFile(f, cached_image_path)
                        THEN [w |-> set_folder_thumbnail(added, f, subdir, cached_image_path),
                              need |-> acc.need]
                        ELSE [w |-> [added EXCEPT !.folder_preview_cache = Del(@, subdir)],
                              need |-> Append(acc.need, subdir)]
                ELSE [w |-> added, need |-> Append(acc.need, subdir)]
         IN AddSubdirs(next, f, Tail(subdirs), cached_thumbnails_by_name)

max_initial_workers == 2

RECURSIVE RequestPreviews(_, _, _)
RequestPreviews(st, f, folders) ==
    IF folders = <<>> THEN st
    ELSE RequestPreviews(request_folder_preview(st, f, Head(folders)), f, Tail(folders))

handle_subfolders_found(st, f, subdirs) ==
    IF subdirs = <<>> THEN st
    ELSE LET cached_thumbnails_by_name ==
                 {<<BaseName(e[1]), e[2]>> : e \in st.w.folder_preview_cache}
             paths == [k \in DOMAIN subdirs |-> [path |-> subdirs[k]]]
             ordered == SortByName(paths, IF st.w.use_natural_sort THEN "natural" ELSE "name")
             added == AddSubdirs([w |-> st.w, need |-> <<>>], f,
                                 [k \in DOMAIN ordered |-> ordered[k].path],
                                 cached_thumbnails_by_name)
             first == SubSeq(added.need, 1, IF Len(added.need) < max_initial_workers
                                            THEN Len(added.need) ELSE max_initial_workers)
             rest == SubSeq(added.need, max_initial_workers + 1, Len(added.need))
             requested == RequestPreviews([w |-> added.w, t |-> st.t], f, first)
         IN [requested EXCEPT !.w = update_merge_button_state(
                                       [requested.w EXCEPT !.waiting_folders = @ \o rest])]

\* _handle_subfolders_found, the slot of subfolders_found
HandleSubfoldersFound ==
    /\ Delivered("subfolders_found")
    /\ Becomes(handle_subfolders_found(Here, fs, Head(posted).a))
    /\ UNCHANGED <<rv, fs, fs0, wk, lv, emitted>>

\* folder_preview_task_finished leaving the wait queue as it is
FolderPreviewTaskFinishedNoDrain ==
    /\ Delivered("finished")
    /\ threads[Head(posted).sender].worker.task_type = "get_folder_preview"
    /\ win' = [win EXCEPT !.folder_preview_tasks =
                              {e \in @ : e[2] # Head(posted).sender}]
    /\ UNCHANGED <<threads, rv, fs, fs0, wk, lv, emitted>>

\* folder_preview_task_finished, the slot of a preview Worker's finished
FolderPreviewTaskFinished ==
    /\ Delivered("finished")
    /\ threads[Head(posted).sender].worker.task_type = "get_folder_preview"
    /\ LET worker == Head(posted).sender
           removed == [win EXCEPT !.folder_preview_tasks = {e \in @ : e[2] # worker}]
       IN IF Head(posted).a # "get_folder_preview"
          THEN UNCHANGED <<win, threads>>
          ELSE IF removed.waiting_folders # <<>>
          THEN Becomes(request_folder_preview(
                  [w |-> [removed EXCEPT !.waiting_folders = Tail(@)], t |-> threads],
                  fs, Head(removed.waiting_folders)))
          ELSE Becomes([w |-> removed, t |-> threads])
    /\ UNCHANGED <<rv, fs, fs0, wk, lv, emitted>>

\* task_finished for a successful merge whose sources and target are known
MergeListUpdate(st, f) ==
    LET w == st.w
        source_paths_set == Range(w.last_merged_sources)
        removed_paths == {w.items[k].path : k \in DOMAIN w.items} \cap source_paths_set
        kept == SelectSeq(w.items, LAMBDA item : item.path \notin source_paths_set)
        stopped == [i \in DOMAIN st.t |->
                       IF /\ \E e \in w.folder_preview_tasks :
                                e[1] \in removed_paths /\ e[2] = i
                          /\ ThreadRunning(st.t[i])
                       THEN stop(st.t[i]) ELSE st.t[i]]
        taken == [w EXCEPT
                    !.items = kept,
                    !.folder_preview_cache = {e \in @ : e[1] \notin removed_paths},
                    !.folder_preview_tasks = {e \in @ : e[1] \notin removed_paths}]
        target == IF Parent(w.last_merged_target) = w.current_root_folder
                  THEN request_folder_preview(
                          [w |-> [taken EXCEPT !.items =
                                     Append(@, Item(w.last_merged_target, FALSE))],
                           t |-> stopped],
                          f, w.last_merged_target)
                  ELSE [w |-> taken, t |-> stopped]
    IN [target EXCEPT !.w = sort_subfolder_list(target.w)]

\* the end of task_finished
TaskFinishedEnd(w, original_worker, task_type) ==
    LET merged == IF task_type = "merge_subs"
                  THEN update_merge_button_state(
                          [w EXCEPT !.last_merged_sources = <<>>,
                                    !.last_merged_target = None])
                  ELSE w
        other == IF merged.worker_thread # original_worker
                 THEN enable_ui(merged, TRUE) ELSE merged
    IN IF other.worker_thread = 0 THEN enable_ui(other, TRUE) ELSE other

\* if self.worker_thread == original_worker: the Worker that has finished
\* is no longer tracked
Untracked(w, original_worker) ==
    IF w.worker_thread = original_worker
    THEN [w EXCEPT !.worker_thread = 0, !.current_task_type = "none"]
    ELSE w

\* task_finished, the slot of the finished signal of a scan, populate or
\* merge Worker; its refresh of the whole list goes into stop_worker_thread
TaskFinished ==
    /\ Delivered("finished")
    /\ threads[Head(posted).sender].worker.task_type # "get_folder_preview"
    /\ LET original_worker == Head(posted).sender
           task_type == Head(posted).a
           success == Head(posted).b
           untracked == Untracked(win, original_worker)
       IN IF task_type # "merge_subs"
          THEN Becomes([w |-> TaskFinishedEnd(untracked, original_worker, task_type),
                        t |-> threads])
          ELSE LET cleared == [w |-> clear_preview_area(untracked), t |-> threads]
               IN IF /\ success
                     /\ cleared.w.last_merged_target # None
                     /\ cleared.w.last_merged_sources # <<>>
                  THEN LET updated == MergeListUpdate(cleared, fs)
                       IN Becomes([updated EXCEPT !.w =
                             TaskFinishedEnd(updated.w, original_worker, task_type)])
                  ELSE IF \/ ~success
                          \/ cleared.w.current_root_folder = None
                          \/ ~IsDir(fs, cleared.w.current_root_folder)
                  THEN Becomes([cleared EXCEPT !.w =
                          TaskFinishedEnd(cleared.w, original_worker, task_type)])
                  ELSE Becomes(stop_worker_thread(cleared, "task_finished", None,
                                                  original_worker))
    /\ UNCHANGED <<rv, fs, fs0, wk, lv, emitted>>

\* task_finished after the stop_worker_thread of its populate_subfolder_list
TaskFinishedRefresh ==
    /\ win.pc = "stopped"
    /\ win.then = "task_finished"
    /\ LET populated == populate_subfolder_list([Here EXCEPT !.w = Returned(win)])
       IN Becomes([populated EXCEPT !.w =
             TaskFinishedEnd(populated.w, win.arg_sender, "merge_subs")])
    /\ UNCHANGED <<posted, rv, fs, fs0, wk, lv, emitted>>

\* ---- a window on a root with the folders x and y ----
WindowTree ==
    [dirs |-> {Root, FolderX, FolderY},
     files |-> {FolderX \o <<NameA>>, FolderY \o <<NameA>>},
     empty |-> {}]

\* the window after the root was selected and its folders were listed, when
\* the Workers of the two previews have been started: the populate Worker
\* has ended and is gone
PendingWindow ==
    [NewWindow EXCEPT
        !.current_root_folder = Root,
        !.items = <<Item(FolderX, FALSE), Item(FolderY, FALSE)>>,
        !.folder_preview_tasks = {<<FolderX, 1>>, <<FolderY, 2>>}]

PendingThreads ==
    <<NewThread(NewWorker("get_folder_preview", FolderX, None, <<>>, None)),
      NewThread(NewWorker("get_folder_preview", FolderY, None, <<>>, None))>>

\* the same window after the previews were found and their Workers have
\* ended and are gone
ListedWindow ==
    [NewWindow EXCEPT
        !.current_root_folder = Root,
        !.items = <<[Item(FolderX, FALSE) EXCEPT !.icon = FolderX \o <<NameA>>],
                    [Item(FolderY, FALSE) EXCEPT !.icon = FolderY \o <<NameA>>]>>,
        !.folder_preview_cache = {<<FolderX, FolderX \o <<NameA>> >>,
                                  <<FolderY, FolderY \o <<NameA>> >>}]

InitWindow ==
    /\ rv = NoResolver
    /\ fs = WindowTree
    /\ fs0 = fs
    /\ wk = NoWorker
    /\ lv = <<>>
    /\ emitted = <<>>
    /\ \/ win = NewWindow /\ threads = <<>>
       \/ win = PendingWindow /\ threads = PendingThreads
       \/ win = ListedWindow /\ threads = <<>>
    /\ posted = <<>>

NextWindow ==
    \/ SelectRootFolder \/ SelectRootFolderChosen
    \/ \E row \in DOMAIN win.items : win.items[row].path \in Checkable /\ ItemChanged(row)
    \/ \E row \in DOMAIN win.items : TriggerSubfolderPreview(row)
    \/ TriggerSubfolderPreviewScan
    \/ ConfirmMerge \/ ConfirmMergeStart
    \/ WaitReturns \/ WaitTimesOut
    \/ CloseEvent \/ CloseEventPreviews \/ CloseEventNext \/ CloseEventWait
    \/ HandleError \/ AddImagePathsToList \/ SetFolderThumbnail
    \/ HandleSubfoldersFound \/ FolderPreviewTaskFinished
    \/ TaskFinished \/ TaskFinishedRefresh
    \/ \E i \in DOMAIN threads :
          \/ ThreadRunBegin(i) \/ ThreadScan(i) \/ ThreadPopulate(i)
          \/ ThreadPreview(i) \/ ThreadMergeBegin(i) \/ ThreadMergeSource(i)
          \/ ThreadMergeItem(i)

SpecWindow == InitWindow /\ [][NextWindow]_vars

\* ---- the refresh of the list by task_finished ----
\* the window on the root with x and y after the user merged x twice, the
\* first merge having reported an error while the second was started: the
\* notification of the first merge has updated the list and cleared
\* last_merged_sources and last_merged_target, its Worker has ended and is
\* gone; the second merge has ended and its notification is queued
RefreshTree ==
    [dirs |-> {Root, FolderY, XMerged},
     files |-> {FolderY \o <<NameA>>, XMerged \o <<NameA>>},
     empty |-> {}]

RefreshWindow ==
    [NewWindow EXCEPT
        !.current_root_folder = Root,
        !.items = <<Item(XMerged, FALSE),
                    [Item(FolderY, FALSE) EXCEPT !.icon = FolderY \o <<NameA>>]>>,
        !.worker_thread = 1,
        !.current_task_type = "merge_subs",
        !.folder_preview_tasks = {<<XMerged, 2>>},
        !.folder_preview_cache = {<<FolderY, FolderY \o <<NameA>> >>}]

RefreshThreads ==
    <<Ended(NewThread(NewWorker("merge_subs", None, None, <<FolderX>>, XMerged)),
            "done", TRUE),
      NewThread(NewWorker("get_folder_preview", XMerged, None, <<>>, None))>>

\* the image of y may have been deleted since its preview was recorded
InitRefresh ==
    /\ rv = NoResolver
    /\ fs \in {RefreshTree, [RefreshTree EXCEPT !.files = @ \ {FolderY \o <<NameA>>}]}
    /\ fs0 = fs
    /\ wk = NoWorker
    /\ lv = <<>>
    /\ emitted = <<>>
    /\ win = RefreshWindow
    /\ threads = RefreshThreads
    /\ posted = <<Posted("finished", 1, "merge_subs", TRUE)>>

\* the user checks and unchecks folders; task_finished refreshes the list
NextRefresh ==
    \/ \E row \in DOMAIN win.items : ItemChanged(row)
    \/ TaskFinished \/ TaskFinishedRefresh
    \/ SetFolderThumbnail \/ HandleSubfoldersFound \/ FolderPreviewTaskFinished
    \/ \E i \in DOMAIN threads :
          ThreadRunBegin(i) \/ ThreadPopulate(i) \/ ThreadPreview(i)

SpecRefresh == InitRefresh /\ [][NextRefresh]_vars

\* ---- a window on a root with the folders x and x_merged ----
\* the window after the root was selected, its folders were listed and their
\* previews found: the Workers have ended and are gone
ConflictWindow ==
    [NewWindow EXCEPT
        !.current_root_folder = Root,
        !.items = <<[Item(FolderX, FALSE) EXCEPT !.icon = FolderX \o <<NameA>>],
                    [Item(XMerged, FALSE) EXCEPT !.icon = XMerged \o <<NameA>>]>>,
        !.folder_preview_cache = {<<FolderX, FolderX \o <<NameA>> >>,
                                  <<XMerged, XMerged \o <<NameA>> >>}]

InitConflict ==
    /\ rv = NoResolver
    /\ fs = ConflictTree
    /\ fs0 = fs
    /\ wk = NoWorker
    /\ lv = <<>>
    /\ emitted = <<>>
    /\ win = ConflictWindow
    /\ threads = <<>>
    /\ posted = <<>>

\* the user checks folders and merges them
NextConflict ==
    \/ \E row \in DOMAIN win.items : ItemChanged(row)
    \/ ConfirmMerge \/ ConfirmMergeStart
    \/ WaitReturns \/ WaitTimesOut
    \/ HandleError \/ SetFolderThumbnail \/ FolderPreviewTaskFinished
    \/ TaskFinished \/ TaskFinishedRefresh \/ HandleSubfoldersFound
    \/ \E i \in DOMAIN threads :
          \/ ThreadRunBegin(i) \/ ThreadPopulate(i) \/ ThreadPreview(i)
          \/ ThreadMergeBegin(i) \/ ThreadMergeSource(i) \/ ThreadMergeItem(i)

SpecConflict == InitConflict /\ [][NextConflict]_vars

\* ---- the preview pool: a new window, a root with four folders ----
InitPool ==
    /\ rv = NoResolver
    /\ fs = PoolTree
    /\ fs0 = fs
    /\ wk = NoWorker
    /\ lv = <<>>
    /\ emitted = <<>>
    /\ win = NewWindow
    /\ threads = <<>>
    /\ posted = <<>>

\* the user selects the root, again and again; the Workers list the folders
\* and find the previews
NextPool ==
    \/ SelectRootFolder \/ SelectRootFolderChosen
    \/ SetFolderThumbnail \/ HandleSubfoldersFound
    \/ FolderPreviewTaskFinished \/ TaskFinished
    \/ \E i \in DOMAIN threads :
          ThreadRunBegin(i) \/ ThreadPopulate(i) \/ ThreadPreview(i)

SpecPool == InitPool /\ [][NextPool]_vars

\* ---- the wait queue of the previews and a merge ----
\* the window on the root with four folders after the list was filled and
\* the Worker that listed them has ended and is gone: the previews of w and
\* x have been started, y and z wait, and the user has checked y and z
StrandWindow ==
    [NewWindow EXCEPT
        !.current_root_folder = Root,
        !.items = <<Item(PoolFolder("w"), FALSE), Item(PoolFolder("x"), FALSE),
                    Item(PoolFolder("y"), TRUE), Item(PoolFolder("z"), TRUE)>>,
        !.merge_enabled = TRUE,
        !.folder_preview_tasks = {<<PoolFolder("w"), 1>>, <<PoolFolder("x"), 2>>},
        !.waiting_folders = <<PoolFolder("y"), PoolFolder("z")>>]

InitStrand ==
    /\ rv = NoResolver
    /\ fs = StrandTree
    /\ fs0 = fs
    /\ wk = NoWorker
    /\ lv = <<>>
    /\ emitted = <<>>
    /\ win = StrandWindow
    /\ threads = <<NewThread(NewWorker("get_folder_preview", PoolFolder("w"), None, <<>>, None)),
                   NewThread(NewWorker("get_folder_preview", PoolFolder("x"), None, <<>>, None))>>
    /\ posted = <<>>

\* the user merges the checked folders, once, while the previews run: no
\* Worker is tracked when the merge is confirmed, and no list is refreshed
NextStrand ==
    \/ ConfirmMerge \/ ConfirmMergeStart
    \/ HandleError \/ SetFolderThumbnail
    \/ FolderPreviewTaskFinished \/ TaskFinished
    \/ \E i \in DOMAIN threads :
          \/ ThreadRunBegin(i) \/ ThreadPreview(i)
          \/ ThreadMergeBegin(i) \/ ThreadMergeSource(i) \/ ThreadMergeItem(i)

SpecStrand == InitStrand /\ [][NextStrand]_vars

\* the user selects a root once
\* a new window, two roots
InitRoots ==
    /\ rv = NoResolver
    /\ fs = RootsTree
    /\ fs0 = fs
    /\ wk = NoWorker
    /\ lv = <<>>
    /\ emitted = <<>>
    /\ win = NewWindow
    /\ threads = <<>>
    /\ posted = <<>>

SpecRoots == InitRoots /\ [][NextPool]_vars

\* ---- the order of the list: a root with the folders a10, a2 and B ----
SortNames == {<<"a", "1", "0">>, <<"a", "2">>, <<"B">>}

SortTree ==
    [dirs |-> {Root} \cup {Root \o <<n>> : n \in SortNames},
     files |-> {Root \o << <<"a", "2">>, NameA >>},
     empty |-> {}]

InitSort ==
    /\ rv = NoResolver
    /\ fs = SortTree
    /\ fs0 = fs
    /\ wk = NoWorker
    /\ lv = <<>>
    /\ emitted = <<>>
    /\ win = NewWindow
    /\ threads = <<>>
    /\ posted = <<>>

\* the user selects the root, checks folders and toggles the sort mode
NextSort ==
    \/ NextPool
    \/ ToggleFolderSort
    \/ \E row \in DOMAIN win.items : ItemChanged(row)

SpecSort == InitSort /\ [][NextSort]_vars

SelectRootFolderOnce ==
    /\ win.current_root_folder = None
    /\ SelectRootFolder

\* the same pool when the user selects the root once and then leaves the
\* window alone; every thread that can run does run, and the event loop
\* delivers every signal the threads have queued
NextPoolOnce ==
    \/ SelectRootFolderOnce \/ SelectRootFolderChosen
    \/ SetFolderThumbnail \/ HandleSubfoldersFound
    \/ FolderPreviewTaskFinished \/ TaskFinished
    \/ \E i \in DOMAIN threads :
          ThreadRunBegin(i) \/ ThreadPopulate(i) \/ ThreadPreview(i)

\* the steps of the Workers' threads and the delivery of what they notify
PoolRuns ==
    \/ SetFolderThumbnail \/ FolderPreviewTaskFinished \/ TaskFinished
    \/ \E i \in DOMAIN threads :
          ThreadRunBegin(i) \/ ThreadPopulate(i) \/ ThreadPreview(i)

SpecPoolOnce == InitPool /\ [][NextPoolOnce]_vars /\ WF_vars(PoolRuns)

(***************************************************************************)
(* Claims about the resolver                                               *)
(***************************************************************************)
\* C2: the path the collision resolver returns is never an entry of the
\* target directory as it is at the call: the result is None or a path of the
\* target directory that does not exist.
ResolverResultAbsent ==
    rv.called =>
        \/ rv.result = None
        \/ /\ Parent(rv.result) = TargetDir
           /\ rv.result \notin ExistingIn(TargetDir, rv.listing)

\* C2 witness: the name collided and the resolver returned another path
ResolverCollisionResolved ==
    /\ rv.called
    /\ rv.name \in rv.listing
    /\ rv.result # None

\* the result the algorithm of C9 describes
NumbersFree(name, listing) == {n \in 1..MaxCounter : Numbered(name, n) \notin listing}
LeastOf(S) == CHOOSE n \in S : \A m \in S : n <= m
DescribedResult(name, listing, stamp) ==
    IF name \notin listing THEN TargetDir \o <<name>>
    ELSE IF NumbersFree(name, listing) # {}
         THEN TargetDir \o <<Numbered(name, LeastOf(NumbersFree(name, listing)))>>
    ELSE IF Stamped(name, stamp) \notin listing THEN TargetDir \o <<Stamped(name, stamp)>>
    ELSE None

\* C9: the resolver returns the base name when it is absent, else the name
\* numbered with the smallest absent n in 1..1000, else the timestamp name,
\* and None only when the timestamp name exists too.
ResolverFollowsDescribedAlgorithm ==
    rv.called => rv.result = DescribedResult(rv.name, rv.listing, rv.stamp)

(***************************************************************************)
(* Claims about one Worker                                                 *)
(***************************************************************************)
Indices(sig, whats) ==
    {i \in 1..Len(emitted) : emitted[i].sig = sig /\ emitted[i].what \in whats}

Finished == Indices("finished", {"scan_subfolder_images", "get_folder_preview",
                                 "populate_subfolders", "merge_subs"})
MovedLog == Indices("progress", {"moved"})
SkipLog == Indices("error", {"no unique name", "move"})
Summaries == Indices("progress", {"merge complete", "merge partially complete"})

IsMerge == wk.task_type = "merge_subs" /\ wk.source_merge_folders # <<>>

\* the merge has ended and no test of the cancellation flag failed
MergeEnded ==
    /\ IsMerge
    /\ wk.pc = "done"
    /\ ~lv.cancel_seen

\* the merge has ended after running through both loops to its summary
MergeCompleted == MergeEnded /\ Summaries # {}

\* the files under the source directories when the merge started
SourceFiles0 ==
    {p \in fs0.files :
        \E i \in 1..Len(wk.source_merge_folders) : IsUnder(p, wk.source_merge_folders[i])}

OutcomesOf(p) ==
    {i \in MovedLog : emitted[i].arg[1] = p} \cup {i \in SkipLog : emitted[i].arg = p}

\* C1: the terminal notification of a merge that ran to completion carries
\* success = TRUE exactly when no file was skipped and every source was a
\* valid directory.
MergeSuccessIffNothingSkipped ==
    MergeCompleted =>
        \A i \in Finished :
            emitted[i].arg = (/\ lv.skipped_count = 0
                              /\ Indices("error", {"source not a directory"}) = {})

ExactlyOneFinished ==
    (wk.task_type # "none" /\ wk.pc \in {"done", "terminated"})
        => Cardinality(Finished) = 1

\* C7: a scan or populate of a path that is no directory, and a merge whose
\* target folder is missing, end with finished(kind, FALSE).
StructuralErrorFails ==
    (/\ wk.task_type \in {"scan_subfolder_images", "populate_subfolders", "merge_subs"}
     /\ wk.pc = "done"
     /\ Indices("error", {"not a directory", "target missing"}) # {})
        => \A i \in Finished : emitted[i].arg = FALSE

\* C8: after a merge that was not cancelled and in which no rmdir failed,
\* no directory of a processed source tree, the source itself included, is
\* left without a file somewhere below it.
CleanupComplete ==
    (MergeCompleted /\ Indices("progress", {"could not delete"}) = {})
        => \A i \in 1..Len(lv.processed_sources) :
              \A d \in fs.dirs :
                 (d = lv.processed_sources[i] \/ IsUnder(d, lv.processed_sources[i]))
                    => \E p \in fs.files : IsUnder(p, d)

\* C10: a file that was skipped (no unique name, or a failed move) is
\* counted once and is still where it was, and the merge goes on: if it is
\* not cancelled and no listing fails, every file of the sources gets its
\* outcome.
SkipsAreLocal ==
    IsMerge /\ "skipped_count" \in DOMAIN lv =>
        /\ lv.skipped_count = Cardinality(SkipLog)
        /\ \A i \in SkipLog :
              /\ emitted[i].arg \in fs.files
              /\ \A j \in SkipLog : emitted[j].arg = emitted[i].arg => j = i
        /\ (MergeEnded /\ Indices("error", {"target missing", "merging process"}) = {})
              => \A p \in SourceFiles0 : OutcomesOf(p) # {}

\* C10 witness: a merge that skipped a file, moved a later one and completed
SkipThenMove ==
    /\ MergeCompleted
    /\ \E i \in SkipLog : \E j \in MovedLog : i < j

(***************************************************************************)
(* Claims about the window and its Workers                                 *)
(***************************************************************************)
PrimaryTasks == {"scan_subfolder_images", "populate_subfolders", "merge_subs"}

\* the Workers of the given kinds whose thread is inside run's operation and
\* that have not been asked to cancel
InsideRun(kinds) ==
    {i \in DOMAIN threads : /\ threads[i].worker.task_type \in kinds
                            /\ threads[i].worker.pc \in {"run", "merge"}
                            /\ threads[i].worker.is_running}

\* C4: at most one primary background task (scan_subfolder_images,
\* populate_subfolders or merge_subs) is running at any time, whatever the
\* user does and whatever the Workers notify: never are two primary Workers
\* inside their operations, neither of them asked to cancel.
AtMostOnePrimaryRunning == Cardinality(InsideRun(PrimaryTasks)) <= 1

\* C5: at every instant at most K = 2 preview-generation tasks
\* (get_folder_preview) are running, across preview requests, completions,
\* refreshes of the folder list and selections of the root: never are more
\* than two preview Workers inside their operations, none of them asked to
\* cancel.
AtMostTwoPreviewsRunning == Cardinality(InsideRun({"get_folder_preview"})) <= max_workers

(***************************************************************************)
(* Claims about cancellation                                               *)
(***************************************************************************)
\* C11: cancelling a running task sets its cooperative flag and waits for
\* its thread; a thread that has not ended by the end of the grace period is
\* terminated and waited for.  So on entering the wait the flag of the
\* tracked Worker is false, and whenever stop_worker_thread returns, the
\* Worker that was tracked on entry is no longer running; and when closeEvent
\* returns, no Worker that was in the pool on its entry is running.
CancelledTaskHasStopped ==
    /\ [](win.pc = "stopped" =>
            /\ win.worker_to_stop # 0 => ~ThreadRunning(threads[win.worker_to_stop])
            /\ win.worker_thread # 0 => ~ThreadRunning(threads[win.worker_thread]))
    /\ [](win.pc = "closed" =>
            \A k \in DOMAIN win.active_preview_tasks :
                ~ThreadRunning(threads[win.active_preview_tasks[k][2]]))
    /\ [][win.pc = "idle" /\ win'.pc = "waiting" =>
            /\ win.worker_thread = win'.worker_to_stop
            /\ ThreadRunning(threads[win'.worker_to_stop])
            /\ ~threads'[win'.worker_to_stop].worker.is_running]_vars

\* C11 happens: closeEvent has returned after a primary Worker and a pooled
\* Worker did not end within their grace periods and were terminated
ClosedAfterTerminations ==
    /\ win.pc = "closed"
    /\ \E k \in DOMAIN win.active_preview_tasks :
          threads[win.active_preview_tasks[k][2]].worker.pc = "terminated"
    /\ \E i \in DOMAIN threads :
          /\ threads[i].worker.task_type \in PrimaryTasks
          /\ threads[i].worker.pc = "terminated"

\* the merge is past the test of its target folder: its locals exist
MergeStarted == IsMerge /\ Indices("progress", {"starting merge"}) # {}

\* the source files no "moved" notification names
NotMoved == {p \in SourceFiles0 : \A i \in MovedLog : emitted[i].arg[1] # p}

\* C12: the merge tests the cancellation flag before every source, every
\* item and every deletion: no step taken while the flag is false changes
\* the filesystem, so once a test of the flag has failed no file is moved
\* and no directory deleted, and every source file that was not moved is
\* still at its place.
CancelledMergeTouchesNothing ==
    /\ [][IsMerge /\ ~wk.is_running => fs' = fs]_vars
    /\ [][MergeStarted /\ lv.cancel_seen => fs' = fs /\ lv'.cancel_seen]_vars
    /\ [](MergeStarted /\ lv.cancel_seen => NotMoved \subseteq fs.files)

\* C12 happens: a merge has ended after it moved a file, saw the flag and
\* left another file in its source
CancelledMergeLeftFiles ==
    /\ MergeStarted
    /\ wk.pc = "done"
    /\ lv.cancel_seen
    /\ MovedLog # {}
    /\ NotMoved # {}
    /\ Summaries = {}

\* the notices of an operation that left its loop because the flag was false
CancelLog ==
    Indices("progress", {"scan cancelled", "subfolder scan cancelled", "merge cancelled"})

\* C13: a scan, populate or merge that leaves its loop early because its
\* cancellation flag was set ends with a status of its own: its terminal
\* notification is not the one of the same task succeeding, finished with
\* success = TRUE.
CancelledIsNotSucceeded ==
    CancelLog # {} => \A i \in Finished : emitted[i].arg # TRUE

(***************************************************************************)
(* Claims about the preview pool                                           *)
(***************************************************************************)
PreviewThreads == {i \in DOMAIN threads : threads[i].worker.task_type = "get_folder_preview"}

\* the places of a folder in the wait queue
PlacesIn(queue, folder) == {k \in DOMAIN queue : queue[k] = folder}

\* C14: preview requests that wait are started in the order in which they
\* entered the wait queue: no step brings a folder G of the queue in front
\* of a folder F that was ahead of it, and a preview started while folders
\* wait is the one of the head of the queue; whatever preview Worker's
\* terminal notification is delivered, a tracked one's or a dropped one's.
WaitingFoldersAreFifo ==
    [][/\ \A F, G \in Range(win.waiting_folders) :
             (\E a \in PlacesIn(win.waiting_folders, F),
                 b \in PlacesIn(win.waiting_folders, G) : a < b)
             => ~(\E a \in PlacesIn(win'.waiting_folders, F),
                     b \in PlacesIn(win'.waiting_folders, G) : b < a)
       /\ (/\ win.waiting_folders # <<>>
           /\ Len(win'.waiting_folders) < Len(win.waiting_folders)
           /\ Len(threads') > Len(threads)
           /\ threads'[Len(threads')].worker.task_type = "get_folder_preview")
          => threads'[Len(threads')].worker.folder_to_scan = Head(win.waiting_folders)
      ]_vars

\* C16: at no time are two preview Workers for the same folder inside
\* their operations, neither of them asked to cancel.
OnePreviewPerFolder ==
    \A i, j \in InsideRun({"get_folder_preview"}) :
        threads[i].worker.folder_to_scan = threads[j].worker.folder_to_scan => i = j

\* the folder list was delivered and the previews of its folders requested
PreviewsRequested == win.items # <<>>

\* every folder of the root has had its preview Worker, which has ended, and
\* every notification was delivered
PoolDrained ==
    /\ \A c \in PoolNames :
          \E i \in PreviewThreads :
             /\ threads[i].worker.folder_to_scan = PoolFolder(c)
             /\ threads[i].worker.pc = "done"
    /\ posted = <<>>
    /\ win.waiting_folders = <<>>
    /\ win.folder_preview_tasks = {}

\* C15: when previews are requested for the N = 4 folders of the root at
\* once, none of them cached, and the window is then left alone, every
\* request eventually starts a preview Worker whose terminal notification
\* is delivered, two at once and two from the queue; and there are never
\* more than N preview Workers, one for each folder.
EveryRequestedPreviewFinishes ==
    /\ PreviewsRequested ~> PoolDrained
    /\ [](Cardinality(PreviewThreads) <= Cardinality(PoolNames))
    /\ [](\A i, j \in PreviewThreads :
             threads[i].worker.folder_to_scan = threads[j].worker.folder_to_scan => i = j)

\* C15 happens: the four previews have run, the last two from the queue
PoolDrainedThroughQueue ==
    /\ PoolDrained
    /\ Cardinality(PreviewThreads) = Cardinality(PoolNames)
    /\ Cardinality(win.folder_preview_cache) = Cardinality(PoolNames)

(***************************************************************************)
(* Claims about the refresh of the folder list                             *)
(***************************************************************************)
\* the checked folders' names, and the folders whose recorded preview is
\* still a file, by name
CheckedNames(w) == {BaseName(w.items[k].path) : k \in {j \in DOMAIN w.items : w.items[j].checked}}
PreviewByName(w, f) == {<<BaseName(e[1]), e[2]>> : e \in {c \in w.folder_preview_cache : IsFile(f, c[2])}}

\* populate_subfolder_list runs, as the refresh of task_finished
RefreshStarts == win.pc = "stopped" /\ win.then = "task_finished" /\ win'.pc = "idle"

\* the folder list of a populate Worker is delivered
ListDelivered ==
    /\ win.pc = "idle"
    /\ posted # <<>>
    /\ Head(posted).sig = "subfolders_found"
    /\ posted' = Tail(posted)

\* C17: across a refresh of the same root, every folder that was checked
\* before it and is rediscovered is checked afterwards, and every folder
\* whose preview was recorded keeps it if the image is still a file, both
\* matched by name: populate_subfolder_list records the names of the checked
\* folders and keeps the cache, neither changes until the list is delivered,
\* and the delivery checks the folders of those names and gives the folders
\* of the cached names their previews.
RefreshKeepsChecksAndPreviews ==
    /\ [][RefreshStarts =>
             /\ win'.checked_folder_names_cache = CheckedNames(win)
             /\ win'.folder_preview_cache = win.folder_preview_cache]_vars
    /\ [][win.current_task_type = "populate_subfolders" /\ ~ListDelivered =>
             /\ win'.checked_folder_names_cache = win.checked_folder_names_cache
             /\ win.folder_preview_cache \subseteq win'.folder_preview_cache]_vars
    /\ [][ListDelivered /\ win.current_task_type = "populate_subfolders" =>
             \A k \in DOMAIN Head(posted).a :
                LET subdir == Head(posted).a[k]
                    row == ItemRow(win'.items, subdir)
                IN /\ row # 0
                   /\ BaseName(subdir) \in win.checked_folder_names_cache
                         => win'.items[row].checked
                   /\ \A e \in PreviewByName(win, fs) :
                         e[1] = BaseName(subdir) =>
                            /\ <<subdir, e[2]>> \in win'.folder_preview_cache
                            /\ win'.items[row].icon = e[2]]_vars

\* C17 happens: the list was refreshed while y was checked and had its
\* preview, and y is checked and has its preview in the new list, beside an
\* unchecked folder
RefreshedWithCheckAndPreview ==
    /\ win.current_task_type = "populate_subfolders"
    /\ win.checked_folder_names_cache = {BaseName(FolderY)}
    /\ \E row \in DOMAIN win.items :
          /\ win.items[row].path = FolderY
          /\ win.items[row].checked
          /\ win.items[row].icon = FolderY \o <<NameA>>
    /\ \E row \in DOMAIN win.items : ~win.items[row].checked

(***************************************************************************)
(* Claims about the start of a merge                                       *)
(***************************************************************************)
\* confirm_and_start_merge_to_new has stopped the tracked Worker and finds
\* checked folders, all of them directories, the target among them
MergeConflict ==
    /\ win.pc = "stopped"
    /\ win.then = "confirm_and_start_merge_to_new"
    /\ LET checked_items == get_checked_subfolder_items(win)
       IN /\ checked_items # <<>>
          /\ \A k \in DOMAIN checked_items : IsDir(fs, checked_items[k].path)
          /\ \E k \in DOMAIN checked_items : checked_items[k].path = MergeTarget(win)

\* C20: when the target determined from the checked folders is one of
\* them, confirm_and_start_merge_to_new returns without creating the target
\* directory, without starting a Worker, without recording the merge and
\* without a change of the filesystem.
MergeConflictRefuses ==
    [][MergeConflict =>
          /\ fs' = fs
          /\ threads' = threads
          /\ posted' = posted
          /\ win' = Returned(win)]_vars

\* C20 happens: x and x_merged are both checked, the target of their merge
\* is x_merged, and confirm_and_start_merge_to_new is about to decide
MergeConflictFound ==
    /\ MergeConflict
    /\ MergeTarget(win) = XMerged
    /\ Len(get_checked_subfolder_items(win)) = 2

(***************************************************************************)
(* Claims about the selection of a root                                    *)
(***************************************************************************)
\* C18: from the selection of a root on, every entry of folder_preview_cache
\* is for a folder of the selected root; the result of a preview Worker
\* started for the previous root is not recorded.
CacheIsOfSelectedRoot ==
    \A e \in win.folder_preview_cache :
       e[1] = win.current_root_folder \o <<BaseName(e[1])>>

(***************************************************************************)
(* Claims about the results of superseded Workers                          *)
(***************************************************************************)
\* the Worker that sent the notification is the one the window expects it
\* from: the tracked primary Worker, or a tracked preview Worker
Expected(m) ==
    IF threads[m.sender].worker.task_type = "get_folder_preview"
    THEN m.sender \in Values(win.folder_preview_tasks)
    ELSE m.sender = win.worker_thread

\* a subfolder list, an image batch, a preview association or the end of a
\* merge is delivered to its slot
ResultDelivered ==
    /\ win.pc = "idle"
    /\ posted # <<>>
    /\ posted' = Tail(posted)
    /\ \/ Head(posted).sig \in {"subfolders_found", "image_paths", "folder_preview_image"}
       \/ Head(posted).sig = "finished" /\ Head(posted).a = "merge_subs"

\* C19: a subfolder list, an image batch, a preview association or a
\* merge-finished notification whose sender is not the Worker the window
\* expects changes neither the folder list, nor the image list, nor the
\* preview cache.
StaleResultsAreIgnored ==
    [][ResultDelivered /\ ~Expected(Head(posted)) =>
          /\ win'.items = win.items
          /\ win'.image_files_in_preview = win.image_files_in_preview
          /\ win'.folder_preview_cache = win.folder_preview_cache]_vars

(***************************************************************************)
(* Claims about the target of a merge                                      *)
(***************************************************************************)
\* confirm_and_start_merge_to_new starts a merge Worker
MergeWorkerStarts ==
    /\ Len(threads') = Len(threads) + 1
    /\ threads'[Len(threads')].worker.task_type = "merge_subs"

\* <root>/<first>_merged, or <root>/<first>1 when <first> contains "_merged"
\* whatever the case of its letters, <first> being the least of the names
NamedTarget(root, names) ==
    LET first == CHOOSE n \in names : \A m \in names \ {n} : StrLess(n, m)
    IN root \o <<IF Contains(Lower(first), MergedMark)
                 THEN first \o <<"1">> ELSE first \o MergedMark>>

\* C21: when a merge is started the target is <root>/<first>_merged, or
\* <root>/<first>1 if <first> contains "_merged", for the first checked name
\* in ascending order; it is a directory by then, created if it was missing
\* and left as it was otherwise, and the Worker has not begun to run.
MergeTargetIsNamedAndMade ==
    [][MergeWorkerStarts =>
          LET target == NamedTarget(win.current_root_folder, CheckedNames(win))
              worker == threads'[Len(threads')].worker
          IN /\ worker.target_merge_folder = target
             /\ win'.last_merged_target = target
             /\ fs'.dirs = fs.dirs \cup {target}
             /\ fs'.files = fs.files
             /\ worker.pc = "start"]_vars

\* C21 happens: x_merged alone was checked and merged; the target
\* x_merged1, which did not exist, is a directory and the Worker is started
MergedIntoNumberedTarget ==
    /\ XMerged \o <<"1">> \notin fs0.dirs
    /\ \E i \in DOMAIN threads :
          /\ threads[i].worker.task_type = "merge_subs"
          /\ threads[i].worker.source_merge_folders = <<XMerged>>
          /\ threads[i].worker.target_merge_folder = Root \o <<BaseName(XMerged) \o <<"1">> >>
          /\ IsDir(fs, threads[i].worker.target_merge_folder)

\* C22: a merge whose target folder does not exist when it runs stops at
\* once with an error: it never enters its loops, no file is moved, no
\* directory is created or deleted, and the filesystem stays as it was.
MissingTargetLeavesAllAlone ==
    IsMerge /\ ~Exists(fs0, wk.target_merge_folder) =>
       /\ fs = fs0
       /\ MovedLog = {}
       /\ wk.pc \notin {"merge_source", "merge_item", "merge_delete", "merge_rmdir"}
       /\ wk.pc = "done" => Indices("error", {"target missing"}) # {}

\* C22 happens: a merge of sources with files has ended, its target missing
MissingTargetMergeEnded ==
    /\ IsMerge
    /\ ~Exists(fs0, wk.target_merge_folder)
    /\ wk.pc = "done"
    /\ Indices("error", {"target missing"}) # {}
    /\ \E p \in fs0.files : IsUnder(p, wk.source_merge_folders[1])

\* the first run has ended after the summary of a merge without skips
FirstRunClean ==
    \E i \in Summaries, j \in Finished :
       /\ i < j
       /\ emitted[i].what = "merge complete"
       /\ emitted[i].arg[2] = 0

\* C23: after a first run that completed without a skipped file, a second
\* run of the same merge moves no file and skips none: from the end of the
\* first run on the set of files stays as the first run left it, nothing
\* lost and nothing duplicated, and no move or skip is reported.
RerunMovesNothing ==
    [][FirstRunClean =>
          /\ fs'.files = fs.files
          /\ \A i \in (Len(emitted) + 1)..Len(emitted') :
                ~(\/ emitted'[i].sig = "progress" /\ emitted'[i].what = "moved"
                  \/ emitted'[i].sig = "error"
                        /\ emitted'[i].what \in {"no unique name", "move"})]_vars

\* C23 happens: the first run moved files and skipped none, and the second
\* run has ended with the summary of a merge that moved and skipped nothing
RerunEnded ==
    /\ Cardinality(Finished) = 2
    /\ Cardinality(Summaries) = 2
    /\ \E i \in Summaries, j \in Summaries :
          /\ i < j
          /\ emitted[i].arg[1] > 0 /\ emitted[i].arg[2] = 0
          /\ emitted[j].arg[1] = 0 /\ emitted[j].arg[2] = 0

(***************************************************************************)
(* Claims about the scan of a folder                                       *)
(***************************************************************************)
\* the image batches, in the order of their emission
Batches == SelectSeq(emitted, LAMBDA e : e.sig = "image_paths")

RECURSIVE Flattened(_)
Flattened(batches) ==
    IF batches = <<>> THEN <<>> ELSE Head(batches).arg \o Flattened(Tail(batches))

\* the files below the folder with a supported extension, whatever the case
\* of its letters, in the order of the traversal
ImagesBelow(f, folder) ==
    SelectSeq(Listed(Rglob(f, folder)),
              LAMBDA p : /\ p \in f.files
                         /\ Lower(PathSuffix(BaseName(p))) \in SUPPORTED_IMAGE_EXTENSIONS)

IsScan == wk.task_type = "scan_subfolder_images" /\ wk.folder_to_scan # None

\* the scan has ended, was not cancelled and met no error
ScanCompleted ==
    /\ IsScan
    /\ wk.pc = "done"
    /\ Indices("progress", {"scan cancelled"}) = {}
    /\ \A i \in 1..Len(emitted) : emitted[i].sig # "error"

CancelledScanDeliveredFound ==
    IsScan /\ Indices("progress", {"scan cancelled"}) # {} =>
       Flattened(Batches) = SubSeq(ImagesBelow(fs0, wk.folder_to_scan), 1, lv.count)

(***************************************************************************)
(* Claims about the preview of a folder                                    *)
(***************************************************************************)
\* the non-empty images exactly depth levels below the folder: depth 1 is
\* the folder's own entries
ImagesAt(f, folder, depth) ==
    {p \in Glob(f, folder, depth) : IsImage(f, p) /\ p \notin f.empty}

\* C25: a preview task that ran to its end reports an image if and only if
\* a non-empty image lies in the folder, one level deep or two levels deep
\* (folder/s/t/img); it reports at most one, and one of the shallowest
\* level that has any.
PreviewSearchesTwoLevelsDeep ==
    (/\ wk.task_type = "get_folder_preview"
     /\ wk.pc = "done"
     /\ ~wk.stopped
     /\ \A i \in 1..Len(emitted) : emitted[i].sig # "error") =>
        LET found == {i \in 1..Len(emitted) : emitted[i].sig = "folder_preview_image"}
            levels == {d \in 1..3 : ImagesAt(fs0, wk.folder_to_scan, d) # {}}
        IN /\ Cardinality(found) <= 1
           /\ found # {} <=> levels # {}
           /\ \A i \in found :
                 emitted[i].arg \in
                    ImagesAt(fs0, wk.folder_to_scan,
                             CHOOSE d \in levels : \A e \in levels : d <= e)

(***************************************************************************)
(* Claims about the cleanup after a merge                                  *)
(***************************************************************************)
\* C26: every directory a merge deletes is a processed source or lies
\* below one, and has no entry at the moment it is deleted; the target, the
\* root, a folder that was no source and a directory that holds a file are
\* never deleted.
CleanupStaysInProcessedSources ==
    [][IsMerge =>
          \A d \in fs.dirs \ fs'.dirs :
             /\ \E k \in DOMAIN lv.processed_sources :
                   d = lv.processed_sources[k] \/ IsUnder(d, lv.processed_sources[k])
             /\ Glob(fs, d, 1) = {}
             /\ d \notin {Root, wk.target_merge_folder}
             /\ d \in Range(wk.source_merge_folders)
                \/ \E k \in DOMAIN wk.source_merge_folders :
                      IsUnder(d, wk.source_merge_folders[k])]_vars

\* C26 happens: the merge of x has ended and x is deleted, while the empty
\* folder y beside it, which was no source, and the target are still there
CleanupLeftSiblingAlone ==
    /\ IsMerge
    /\ wk.pc = "done"
    /\ wk.source_merge_folders = <<FolderX>>
    /\ FolderX \in fs0.dirs \ fs.dirs
    /\ FolderY \in fs.dirs
    /\ Glob(fs, FolderY, 1) = {}
    /\ wk.target_merge_folder \in fs.dirs

(***************************************************************************)
(* Claims about the order of the folder list                               *)
(***************************************************************************)
\* the entries of the list with their checked states, as a bag
Entries(w) ==
    LET E == {[path |-> w.items[k].path, checked |-> w.items[k].checked] :
                 k \in DOMAIN w.items}
    IN [e \in E |-> Cardinality({k \in DOMAIN w.items :
                        /\ w.items[k].path = e.path
                        /\ w.items[k].checked = e.checked})]

ListedNames == [k \in DOMAIN win.items |-> BaseName(win.items[k].path)]

ListFollowsSortMode ==
    \A i, j \in DOMAIN win.items :
       i < j => ~NameLess(IF win.use_natural_sort THEN "natural" ELSE "lower",
                          ListedNames[j], ListedNames[i])

(***************************************************************************)
(* Claims about the image list                                             *)
(***************************************************************************)
\* an image batch is at the head of the queue and the window is idle
BatchArrives ==
    /\ win.pc = "idle"
    /\ posted # <<>>
    /\ Head(posted).sig = "image_paths"

\* the batch is from the tracked primary Worker, which is a scan
BatchIsCurrent ==
    /\ Head(posted).sender = win.worker_thread
    /\ win.current_task_type = "scan_subfolder_images"

\* C30: the delivery of an image batch appends its paths to the image list
\* when the sender is the tracked primary Worker and the current task is
\* scan_subfolder_images, and leaves the image list as it is otherwise.
OnlyCurrentBatchesAreAdded ==
    [][BatchArrives /\ posted' = Tail(posted) =>
          win'.image_files_in_preview =
             IF BatchIsCurrent
             THEN win.image_files_in_preview \o Head(posted).a
             ELSE win.image_files_in_preview]_vars

\* C30 happens: the batch of a scan that is no longer tracked, with images
\* in it, is about to be delivered
StaleBatchArrives ==
    /\ BatchArrives
    /\ ~BatchIsCurrent
    /\ Head(posted).a # <<>>

(***************************************************************************)
(* Claims about the files of a merge                                       *)
(***************************************************************************)
\* the files below one of the sources of the merge
SourceFilesIn(f) ==
    {p \in f.files :
        \E i \in 1..Len(wk.source_merge_folders) : IsUnder(p, wk.source_merge_folders[i])}

\* the files below the target folder of the merge
TargetFilesIn(f) == {p \in f.files : IsUnder(p, wk.target_merge_folder)}

\* C31: at every step of a merge the files below the sources and the files
\* in the target are together as many as when it started, every file the
\* target held before is still there with the content it had, and the
\* target has gained exactly moved_count files.
MergeKeepsEveryFile ==
    IsMerge =>
        LET moved_count == IF "moved_count" \in DOMAIN lv THEN lv.moved_count ELSE 0
        IN /\ Cardinality(SourceFilesIn(fs)) + Cardinality(TargetFilesIn(fs))
                 = Cardinality(SourceFilesIn(fs0)) + Cardinality(TargetFilesIn(fs0))
           /\ \A p \in TargetFilesIn(fs0) :
                 p \in fs.files /\ (p \in fs.empty <=> p \in fs0.empty)
           /\ Cardinality(TargetFilesIn(fs) \ TargetFilesIn(fs0)) = moved_count

\* C31 happens: a merge has run to its summary and moved two files named
\* a.jpg into a target that held an a.jpg already
MergedIntoTakenNames ==
    /\ MergeCompleted
    /\ lv.moved_count = 2
    /\ TargetDir \o <<NameA>> \in TargetFilesIn(fs0)
    /\ \A i \in MovedLog : BaseName(emitted[i].arg[1]) = NameA

(***************************************************************************)
(* Claims about the tracking of the primary task                           *)
(***************************************************************************)
\* an error notification is at the head of the queue and the window is idle
ErrorArrives ==
    /\ win.pc = "idle"
    /\ posted # <<>>
    /\ Head(posted).sig = "error"

\* the window tracks a primary Worker whose thread is running
TrackedRuns ==
    /\ win.worker_thread # 0
    /\ ThreadRunning(threads[win.worker_thread])

\* C32: the handling of an error notification, from a preview Worker or
\* from the primary Worker itself, leaves worker_thread and
\* current_task_type as they are while the tracked primary Worker is
\* running.
ErrorKeepsRunningTaskTracked ==
    [][ErrorArrives /\ posted' = Tail(posted) /\ TrackedRuns =>
          /\ win'.worker_thread = win.worker_thread
          /\ win'.current_task_type = win.current_task_type]_vars

(***************************************************************************)
(* Claims about the folder list after a merge                              *)
(***************************************************************************)
\* the terminal notification of a merge is at the head of the queue and the
\* window is idle
MergeFinishArrives ==
    /\ win.pc = "idle"
    /\ posted # <<>>
    /\ Head(posted).sig = "finished"
    /\ Head(posted).a = "merge_subs"

\* the folders the list has an entry for
ListedPaths(w) == {w.items[k].path : k \in DOMAIN w.items}

\* C33: when task_finished handles the terminal notification of a merge,
\* every entry it takes from the list is of a folder that is no longer a
\* directory on disk; a source that still exists stays listed.
OnlyVanishedSourcesAreUnlisted ==
    [][MergeFinishArrives /\ posted' = Tail(posted) =>
          \A p \in ListedPaths(win) \ ListedPaths(win') : ~IsDir(fs, p)]_vars

\* C34: the list never has two entries for the same folder path, whatever
\* refreshes, merges and re-sorts have happened, also after a merge into a
\* target folder that was listed already.
NoFolderListedTwice ==
    \A j, k \in DOMAIN win.items :
       win.items[j].path = win.items[k].path => j = k

(***************************************************************************)
(* Claims about the wait queue of the previews                             *)
(***************************************************************************)
\* C35: between two handlers, whenever a folder waits for its preview, the
\* window tracks at least one preview Worker, whose terminal notification
\* will take the next folder from the queue.
WaitingFoldersHaveARunner ==
    (win.pc = "idle" /\ win.waiting_folders # <<>>) => win.folder_preview_tasks # {}

(***************************************************************************)
(* Claims about the end of the window                                      *)
(***************************************************************************)
\* C36: when closeEvent has returned, no Worker is running, be it the
\* primary one or a preview, tracked by the window or dropped from its
\* tracking before.
ClosedMeansNothingRuns ==
    win.pc = "closed" => \A i \in DOMAIN threads : ~ThreadRunning(threads[i])

(***************************************************************************)
(* Claims about the notifications of superseded tasks                      *)
(***************************************************************************)
\* the terminal notification of a scan, populate or merge Worker is at the
\* head of the queue and the window is idle
PrimaryFinishArrives ==
    /\ win.pc = "idle"
    /\ posted # <<>>
    /\ Head(posted).sig = "finished"
    /\ threads[Head(posted).sender].worker.task_type \in PrimaryTasks

\* the tests of task_finished and of stop_worker_thread by themselves:
\* task_finished resets worker_thread and current_task_type when the sender
\* is the tracked Worker and leaves them otherwise, and stop_worker_thread
\* resets them after its wait exactly when the Worker it has stopped is the
\* tracked one
ResetsTestTheTrackedWorker ==
    /\ [][PrimaryFinishArrives /\ posted' = Tail(posted) =>
             IF Head(posted).sender = win.worker_thread
             THEN win'.worker_thread = 0 /\ win'.current_task_type = "none"
             ELSE /\ win'.worker_thread = win.worker_thread
                  /\ win'.current_task_type = win.current_task_type]_vars
    /\ [][win.pc = "waiting" /\ win'.pc = "stopped" =>
             IF win.worker_thread = win.worker_to_stop
             THEN win'.worker_thread = 0 /\ win'.current_task_type = "none"
             ELSE /\ win'.worker_thread = win.worker_thread
                  /\ win'.current_task_type = win.current_task_type]_vars

\* task_finished is handling the notification of a Worker that is not the
\* tracked one, and the tracked Worker was running when the handling began
HandlingStaleFinish ==
    /\ win.then = "task_finished"
    /\ win.pc = "waiting"
    /\ win.worker_thread # 0
    /\ win.worker_thread # win.arg_sender

\* C37: the handling of the terminal notification of a superseded Worker,
\* from its delivery to the return of task_finished, never clears the
\* tracking of the newer Worker: worker_thread and current_task_type stay
\* as they are.
StaleFinishNeverUntracks ==
    /\ [][PrimaryFinishArrives /\ posted' = Tail(posted)
             /\ Head(posted).sender # win.worker_thread =>
                /\ win'.worker_thread = win.worker_thread
                /\ win'.current_task_type = win.current_task_type]_vars
    /\ [][HandlingStaleFinish =>
             /\ win'.worker_thread = win.worker_thread
             /\ win'.current_task_type = win.current_task_type]_vars

====
